---- MODULE Spec2Model ----
(***************************************************************************)
(* Model of the ingestion coordinator of scripts/ingest:                   *)
(*   transaction.py  TransactionContext, QwenTransactionContext            *)
(*   storage.py      StorageManager (upload, promote, delete of blobs)     *)
(*   database.py     DatabaseManager (pool, get_connection, bulk_copy,     *)
(*                   transforms)                                           *)
(*   cli.py          load_command (batch loop), load_qwen_command          *)
(*   processor.py    ParallelDataProcessor.process_dataset (filter)        *)
(*                                                                         *)
(* Specifications:                                                         *)
(*   Spec         the batch loop of one load_command run, then qwen        *)
(*   PoolSpec     uses of DatabaseManager.get_connection                   *)
(*   RerunSpec    load_command run twice over the same dataset             *)
(*   LimiterSpec  any sequence of calls on one AdaptiveRateLimiter         *)
(*   UploadSpec   _sequential_upload / upload_file, store answers freely   *)
(*   PacedSpec    the same against a store that throttles below a delay X  *)
(*   ParSpec      _parallel_upload: threads sharing the limiter            *)
(*                                                                         *)
(* Except in ParSpec one thread runs: pc is the position of its control    *)
(* flow.  Remote calls (blob store, database) succeed or fail              *)
(* nondeterministically.                                                   *)
(***************************************************************************)
EXTENDS Integers, Sequences, FiniteSets, TLC

\* ---------------------------------------------------------------- bounds
NumRecs == 2          \* RecognitionData values produced by process_dataset
BatchSize == 1        \* config.batch_size of the run
MaxUses == 3          \* get_connection uses in one PoolSpec behaviour
MaxCalls == 22        \* limiter calls in one LimiterSpec behaviour
MaxFiles == 3         \* pairs given to batch_upload in UploadSpec
PacedFiles == 12      \* pairs given to batch_upload in PacedSpec
ParFiles == 2         \* pairs given to batch_upload in ParSpec
MaxPaths == 2         \* paths given to delete_batch
MaxExports == 2       \* export_<n> directories of a dataset root
MaxOps == 2           \* DatabaseManager calls in a row
MaxAnn == 2           \* rows of the annotation file

Recs == 1..NumRecs
Slots == {1, 2}       \* image1_path (camera 1), image2_path (camera 2)
None == "none"

\* ------------------------------------------------------- program constants
STATUS_PENDING == "pending"
STATUS_PROCESSING == "processing"
STATUS_COMPLETE == "complete"
STATUS_FAILED == "failed"
STATUS_ROLLED_BACK == "rolled_back"
storage_temp_prefix == "temp"
\* durations are counted in ticks of 1/640 s, which keeps 0.1 s, 0.5 s and
\* the halvings of the delays below exact
Second == 640
max_delay == 5 * Second          \* AdaptiveRateLimiter(max_delay=5.0)
min_increase == Second \div 2    \* max(0.5, ...) of record_error
increase_factor == 2             \* increase_factor=2.0
success_threshold == 10          \* success_threshold=10
max_attempts == 3                \* upload_file: max_attempts = 3
thread_count == 2                \* config.thread_count of the "safe" profile
Workers == 1..thread_count       \* threads of _parallel_upload's executor
\* config._rate_limit_delay of the profiles (0.0, 0.1), 0.2 s and max_delay
InitialDelays == {0, Second \div 10, Second \div 5, max_delay}
\* thresholds X <= max_delay of the throttling store of PacedSpec
PacedX == {Second \div 2, Second, 3 * Second, max_delay}

Managers == {"load", "qwen"}   \* the DatabaseManager of load_command / load_qwen_command
Tables == {"raw.recognition_files", "raw.recipes", "recognitions", "recipes",
           "raw.qwen_annotations", "initial_tray_items"}
NoRows == [t \in Tables |-> {}]

\* ------------------------------------------------------------------ state
VARIABLES
    pc,                 \* position of the control flow
    ctx,                \* class of the open context: "tx", "qwen", "conn" or None
    status,             \* TransactionContext._status
    db_conn,            \* the context holds a connection (_db_conn is not None)
    staged_recognitions,\* TransactionContext._staged_recognitions
    use_temp,           \* use_temp_storage argument of the stage call
    batchNo,            \* number of the batch of load_command's loop
    exc,                \* exception in flight (None when there is none)
    rbFrom,             \* caller of the running rollback(): "exit" or "commit"
    temp_files,         \* StorageManager._temp_files
    uploaded_files,     \* StorageManager._uploaded_files
    objects,            \* bucket content: path -> "absent" | "old" | "new"
    moved,              \* position of commit_temp_files' loop: paths already moved
    checkedOut,         \* per DatabaseManager: connections taken from the pool
    pending,            \* rows written in the open transaction of the connection
    committed,          \* rows committed in the database
    steps,              \* history: calls made in the current lifecycle, in order
    origExc,            \* history: first exception raised in the current lifecycle
    delFailed,          \* history: a blob delete request failed in this lifecycle
    objects0,           \* history: bucket content when the context was entered
    committed0,         \* history: committed rows when the context was entered
    uses,               \* history: get_connection uses started
    upload_failed,      \* history: the failed count batch_upload returned
    run,                \* load_command invocation: "first", "second" or None
    force,              \* args.force of the invocations
    valid,              \* record directories process_recognition can process
    existing_ids,       \* existing_ids of load_command
    recognitions,       \* list returned by process_dataset
    rc,                 \* history: return codes of the finished invocations
    rate_limiter,       \* StorageManager.rate_limiter (AdaptiveRateLimiter fields)
    lim_calls,          \* history: number of limiter calls made
    last,               \* history: the last limiter call and the fields before it
    rate_strategy,      \* config._rate_limit_strategy
    nfiles,             \* number of (path, bytes) pairs given to batch_upload
    backend_x,          \* the store throttles while the delay is below it (-1: any answer)
    file_no,            \* position of _sequential_upload's loop
    attempt,            \* attempt of upload_file's loop
    successful_count,   \* successful of _sequential_upload
    failed_count,       \* failed of _sequential_upload
    result,             \* how the last upload_file call ended
    trace,              \* history: waits, requests and sleeps of the current call
    req_before,         \* history: limiter and counters when the last request was sent
    call_log,           \* history: starts and ends of the upload_file calls of the batch
    wpc,                \* per upload worker: position inside upload_file
    wfile,              \* per worker: number of the pair it uploads
    wattempt,           \* per worker: attempt of upload_file's loop
    wanswer,            \* per worker: answer to its last request
    wlocal,             \* per worker: limiter fields read inside the locked block
    lock,               \* AdaptiveRateLimiter._lock: the holder, 0 when free
    seq_limiter,        \* history: the limiter calls applied one after another
    recorded,           \* history: number of record_error calls made
    del_paths,          \* delete_batch: the paths argument
    del_successful,     \* delete_batch: successful
    del_failed,         \* delete_batch: failed
    del_i,              \* delete_batch: paths of the fallback loop already handled
    del_result,         \* delete_batch: the returned tuple, <<>> before the return
    del_log,            \* history: the remove requests sent and whether each raised
    exports,            \* dataset root: the export_<n> directories present
    export_recs,        \* per export directory: ids of its recognition_<id> directories
    direct_recs,        \* dataset root: ids of the record directories directly under it
    dir_kind,           \* per record directory: what it holds
    scan_limit,         \* the limit argument, 0 for None
    scan_export,        \* history: the export directory scan_recognitions listed, 0 for none
    recognition_dirs,   \* process_dataset: recognition_dirs
    futures,            \* process_dataset: positions of the submitted, not yet collected tasks
    proc_results,       \* process_dataset: results
    proc_returned,      \* process_dataset: TRUE once it has returned proc_results
    processed,          \* history: directories handed to process_recognition
    metrics,            \* MetricsCollector counters recognitions_processed / _failed
    table_exists,       \* the database has a table public.recognitions
    op_calls,           \* number of DatabaseManager calls made
    op_last,            \* history: the last DatabaseManager call and what it did
    qwen_annotations,   \* history: the annotations given to load_qwen_annotations
    qwen_copied,        \* history: the rows load_qwen_annotations gave to bulk_copy
    commit_from,        \* "body" while a commit() called by the with-body runs, else None
    retry_max_attempts, \* IngestConfig.retry_max_attempts of the run
    retry_backoff_factor, \* IngestConfig.retry_backoff_factor of the run
    mv_attempt,         \* move_file: attempt of the retry decorator, from 0
    mv_log,             \* history: the store requests of move_file and their answers
    mv_result,          \* move_file: "True", "raised" or None while it runs
    mv_data             \* move_file: the bytes download() returned, or None

ctxVars == <<ctx, status, db_conn, staged_recognitions, use_temp, batchNo, exc, rbFrom>>
storeVars == <<temp_files, uploaded_files, objects, moved>>
dbVars == <<checkedOut, pending, committed>>
histVars == <<steps, origExc, delFailed, objects0, committed0, uses, upload_failed>>
runVars == <<run, force, valid, existing_ids, recognitions, rc>>
limVars == <<rate_limiter, lim_calls, last>>
upVars == <<rate_strategy, nfiles, backend_x, file_no, attempt, successful_count, failed_count,
           result, trace, req_before, call_log>>
parVars == <<wpc, wfile, wattempt, wanswer, wlocal, lock, seq_limiter, recorded>>
smVars == <<limVars, upVars, parVars>>
flowVars == <<pc, ctxVars, storeVars, dbVars, histVars, runVars>>
delVars == <<del_paths, del_successful, del_failed, del_i, del_result, del_log>>
procVars == <<exports, export_recs, direct_recs, dir_kind, scan_limit, scan_export,
             recognition_dirs, futures, proc_results, proc_returned, processed, metrics>>
dbopVars == <<table_exists, op_calls, op_last>>
qwenVars == <<qwen_annotations, qwen_copied>>
lateVars == <<commit_from, retry_max_attempts, retry_backoff_factor,
             mv_attempt, mv_log, mv_result, mv_data>>
otherVars == <<delVars, procVars, dbopVars, qwenVars, lateVars>>
vars == <<flowVars, smVars, otherVars>>

\* ---------------------------------------------------------------- helpers
\* storage paths as lists of segments: recognitions/<id>/<image path>
PermPath(r, s) == <<"recognitions", r, s>>
\* upload_file: storage_path = f"{temp_prefix}/{storage_path}"
TempPath(p) == <<storage_temp_prefix>> \o p
\* commit_temp_files: temp_path.replace(f"{temp_prefix}/", "", 1)
StripTemp(p) == IF Len(p) > 0 /\ Head(p) = storage_temp_prefix THEN Tail(p) ELSE p

PermPaths == {PermPath(r, s) : r \in Recs, s \in Slots}
Paths == PermPaths \cup {TempPath(p) : p \in PermPaths}

\* cli.py: batch = recognitions[i:i + batch_size], batch_num = i // batch_size + 1
Batch(k) == {recognitions[i] : i \in {j \in 1..Len(recognitions) :
                                        (k - 1) * BatchSize < j /\ j <= k * BatchSize}}
TotalBatches == (Len(recognitions) + BatchSize - 1) \div BatchSize

\* the dataset: odd records carry a recipe file (RecognitionData.recipe_payload)
HasRecipe(r) == r % 2 = 1

\* _stage_images: the (path, data) pairs of a batch
Uploads(recs) == {PermPath(r, s) : r \in recs, s \in Slots}
\* upload_file: the path actually written
Target(p, temp) == IF temp THEN TempPath(p) ELSE p

\* delete_recognition_files: objects listed under recognitions/<id>
Folder(r) == {p \in PermPaths : p[2] = r /\ objects[p] # "absent"}

Count(seq, x) == Cardinality({i \in 1..Len(seq) : seq[i] = x})
Index(seq, x) == IF \E i \in 1..Len(seq) : seq[i] = x
                 THEN CHOOSE i \in 1..Len(seq) : seq[i] = x /\ \A j \in 1..(i-1) : seq[j] # x
                 ELSE 0
Log(s) == steps' = Append(steps, s)

\* raise: the exception starts to propagate
Raise(e) == /\ exc' = e
            /\ origExc' = IF origExc = None THEN e ELSE origExc

\* ------------------------------------------------------------------- Init
\* The bucket may hold objects of earlier runs: for each record nothing,
\* its permanent images, or images left under the temp prefix.
BucketOf(prior) ==
    [p \in Paths |->
        IF Len(p) = 3 /\ prior[p[2]] = "loaded" THEN "old"
        ELSE IF Len(p) = 4 /\ prior[p[3]] = "leftover" THEN "old"
        ELSE "absent"]

InitCommon ==
    /\ ctx = None
    /\ status = None
    /\ db_conn = FALSE
    /\ staged_recognitions = {}
    /\ use_temp = FALSE
    /\ batchNo = 0
    /\ exc = None
    /\ rbFrom = None
    /\ temp_files = {}
    /\ uploaded_files = {}
    /\ moved = {}
    /\ checkedOut = [m \in Managers |-> 0]
    /\ pending = NoRows
    /\ committed = NoRows
    /\ steps = <<>>
    /\ origExc = None
    /\ delFailed = FALSE
    /\ committed0 = NoRows
    /\ uses = 0
    /\ upload_failed = 0

\* no delete_batch running
InitDel ==
    /\ del_paths = <<>>
    /\ del_successful = 0
    /\ del_failed = 0
    /\ del_i = 0
    /\ del_result = <<>>
    /\ del_log = <<>>

\* no process_dataset running, an empty dataset root
InitProc ==
    /\ exports = {}
    /\ export_recs = [e \in 1..MaxExports |-> {}]
    /\ direct_recs = {}
    /\ dir_kind = [r \in Recs |-> "complete"]
    /\ scan_limit = 0
    /\ scan_export = 0
    /\ recognition_dirs = <<>>
    /\ futures = {}
    /\ proc_results = <<>>
    /\ proc_returned = FALSE
    /\ processed = <<>>
    /\ metrics = [recognitions_processed |-> 0, recognitions_failed |-> 0]

\* no DatabaseManager call made
NoOp == [name |-> None, with_conn |-> FALSE, rows |-> {}, events |-> <<>>,
         raised |-> FALSE, value |-> {}, pending0 |-> NoRows]
InitDbOp ==
    /\ table_exists = TRUE
    /\ op_calls = 0
    /\ op_last = NoOp

\* load_qwen_annotations not called
InitQwen ==
    /\ qwen_annotations = <<>>
    /\ qwen_copied = <<>>

\* IngestConfig defaults; no commit() and no move_file running
InitLate ==
    /\ commit_from = None
    /\ retry_max_attempts = 5
    /\ retry_backoff_factor = 2
    /\ mv_attempt = 0
    /\ mv_log = <<>>
    /\ mv_result = None
    /\ mv_data = None

InitOther == InitDel /\ InitProc /\ InitDbOp /\ InitQwen /\ InitLate

\* AdaptiveRateLimiter.__init__
NewLimiter(initial) ==
    [initial_delay |-> initial, current_delay |-> initial,
     success_count |-> 0, error_count |-> 0]
NoCall == [op |-> None, error |-> <<>>, before |-> NewLimiter(0)]

NoResult == [returned |-> FALSE, raised |-> <<>>]
Before(l) == [limiter |-> l, successful |-> 0, failed |-> 0]

\* no batch_upload running
InitUp ==
    /\ rate_strategy = "adaptive"
    /\ nfiles = 0
    /\ backend_x = -1
    /\ file_no = 0
    /\ attempt = 0
    /\ successful_count = 0
    /\ failed_count = 0
    /\ result = NoResult
    /\ trace = <<>>
    /\ call_log = <<>>
    /\ req_before = Before(NewLimiter(0))

\* no _parallel_upload running
InitPar ==
    /\ wpc = [w \in Workers |-> "idle"]
    /\ wfile = [w \in Workers |-> 0]
    /\ wattempt = [w \in Workers |-> 0]
    /\ wanswer = [w \in Workers |-> <<>>]
    /\ wlocal = [w \in Workers |-> NewLimiter(0)]
    /\ lock = 0
    /\ seq_limiter = NewLimiter(0)
    /\ recorded = 0

\* StorageManager.__init__ with the default config (_rate_limit_delay 0.0)
InitSm ==
    /\ rate_limiter = NewLimiter(0)
    /\ lim_calls = 0
    /\ last = NoCall
    /\ InitUp
    /\ InitPar

\* one invocation whose process_dataset returned every record
InitRun ==
    /\ run = None
    /\ force = FALSE
    /\ valid = Recs
    /\ existing_ids = {}
    /\ recognitions = [i \in 1..NumRecs |-> i]
    /\ rc = <<>>

Init ==
    /\ InitCommon
    /\ InitOther
    /\ InitRun
    /\ InitSm
    /\ pc = "idle"
    /\ \E prior \in [Recs -> {"fresh", "loaded", "leftover"}] : objects = BucketOf(prior)
    /\ objects0 = objects

\* ------------------------------------------------- TransactionContext (tx)
\* cli.py load_command: the next batch gets its own TransactionContext;
\* __init__ sets the status, no connection, no staged records.
NewContext ==
    /\ pc \in {"idle", "exited"}
    /\ exc = None
    /\ ctx # "qwen"
    /\ batchNo < TotalBatches
    /\ pc' = "new"
    /\ ctx' = "tx"
    /\ status' = STATUS_PENDING
    /\ db_conn' = FALSE
    /\ staged_recognitions' = {}
    /\ batchNo' = batchNo + 1
    /\ steps' = <<>>
    /\ origExc' = None
    /\ delFailed' = FALSE
    /\ upload_failed' = 0
    /\ UNCHANGED <<use_temp, exc, rbFrom, storeVars, dbVars, objects0, committed0, uses, runVars, smVars, otherVars>>

\* __enter__: status, pool.getconn(), autocommit off
Enter ==
    /\ pc = "new"
    /\ ctx = "tx"
    /\ status' = STATUS_PROCESSING
    /\ checkedOut' = [checkedOut EXCEPT !["load"] = @ + 1]
    /\ db_conn' = TRUE
    /\ objects0' = objects
    /\ committed0' = committed
    /\ Log("enter")
    /\ pc' = "body"
    /\ UNCHANGED <<ctx, staged_recognitions, use_temp, batchNo, exc, rbFrom, storeVars,
                   pending, committed, origExc, delFailed, uses, upload_failed, runVars, smVars, otherVars>>

\* upload_file for every pair of the batch (batch_upload attempts all of them):
\* out[p] is the final answer of the store for p after the retries.
\*   "ok"   the object is written (upsert) and tracked: _temp_files in temp
\*          mode, _uploaded_files otherwise
\*   "dup"  'Duplicate' / 'already exists': counted as success, the prefixed
\*          path is appended to _uploaded_files whatever the mode
\*   "fail" the last attempt raised: counted in failed
UploadOutcomes(files, temp) ==
    {out \in [files -> {"ok", "dup", "fail"}] :
        \A p \in files : out[p] = "dup" => objects[Target(p, temp)] # "absent"}

AfterUpload(files, temp, out) ==
    [q \in Paths |->
        IF \E p \in files : q = Target(p, temp) /\ out[p] = "ok" THEN "new" ELSE objects[q]]

\* faulty variant: a single failed upload is tolerated
UploadRaisesAboveOne(failed) == failed > 1

\* _stage_images: if failed > 0: raise Exception(...)
UploadRaises(failed) == failed > 0

\* stage_recognitions, first half: _stage_images
StageImages ==
    /\ pc = "body"
    /\ ctx = "tx"
    /\ \E temp \in BOOLEAN :
       LET files == Uploads(Batch(batchNo)) IN
       \E out \in UploadOutcomes(files, temp) :
         LET okT == {Target(p, temp) : p \in {f \in files : out[f] = "ok"}}
             dupT == {Target(p, temp) : p \in {f \in files : out[f] = "dup"}}
             failed == Cardinality({f \in files : out[f] = "fail"})
         IN
         /\ use_temp' = temp
         /\ objects' = AfterUpload(files, temp, out)
         /\ temp_files' = IF temp THEN temp_files \cup okT ELSE temp_files
         /\ uploaded_files' = IF temp THEN uploaded_files \cup dupT
                              ELSE uploaded_files \cup okT \cup dupT
         /\ Log("upload")
         /\ upload_failed' = failed
         /\ IF UploadRaises(failed)
            THEN /\ Raise("upload")
                 /\ pc' = "exit"
            ELSE /\ UNCHANGED <<exc, origExc>>
                 /\ pc' = "stage_db"
    /\ UNCHANGED <<ctx, status, db_conn, staged_recognitions, batchNo, rbFrom, moved,
                   dbVars, delFailed, objects0, committed0, uses, runVars, smVars, otherVars>>

\* stage_recognitions, second half: _stage_database (two bulk_copy calls on the
\* held connection, the second only when there are recipe rows), then
\* _staged_recognitions.extend(recognitions)
StageDatabase ==
    /\ pc = "stage_db"
    /\ LET recs == Batch(batchNo)
           recipe_rows == {r \in recs : HasRecipe(r)}
       IN
       \E res \in {"ok", "fail_files", "fail_recipes"} :
         /\ res = "fail_recipes" => recipe_rows # {}
         /\ Log("bulk_load")
         /\ pending' = CASE res = "ok" ->
                              [pending EXCEPT !["raw.recognition_files"] = @ \cup recs,
                                              !["raw.recipes"] = @ \cup recipe_rows]
                         [] res = "fail_recipes" ->
                              [pending EXCEPT !["raw.recognition_files"] = @ \cup recs]
                         [] OTHER -> pending
         /\ IF res = "ok"
            THEN /\ staged_recognitions' = staged_recognitions \cup recs
                 /\ UNCHANGED <<exc, origExc>>
            ELSE /\ Raise("bulk_load")
                 /\ UNCHANGED staged_recognitions
         /\ pc' = "exit"
    /\ UNCHANGED <<ctx, status, db_conn, use_temp, batchNo, rbFrom, storeVars,
                   checkedOut, committed, delFailed, objects0, committed0, uses, upload_failed, runVars, smVars, otherVars>>

\* faulty variant: __exit__ does not look at the exception of the body
ExitBranchIgnoresError ==
    IF status = STATUS_PROCESSING THEN "commit" ELSE "skip"

\* __exit__: the branch taken for the body's outcome
ExitBranch ==
    IF exc # None THEN "rollback"
    ELSE IF status = STATUS_PROCESSING THEN "commit"
    ELSE "skip"

\* __exit__: rollback() when the body raised, commit() otherwise
Exit ==
    /\ pc = "exit"
    /\ ctx = "tx"
    /\ CASE ExitBranch = "rollback" ->
              /\ Log("rollback")
              /\ rbFrom' = "exit"
              /\ pc' = "rb_db"
         [] ExitBranch = "commit" ->
              /\ Log("commit")
              /\ pc' = "c_dbcommit"
              /\ UNCHANGED rbFrom
         [] OTHER ->
              /\ pc' = "putconn"
              /\ UNCHANGED <<steps, rbFrom>>
    /\ UNCHANGED <<ctx, status, db_conn, staged_recognitions, use_temp, batchNo, exc,
                   storeVars, dbVars, origExc, delFailed, objects0, committed0, uses, upload_failed, runVars, smVars, otherVars>>

\* faulty variant: commit() lets the error through without calling rollback()
CommitFailsWithoutRollback(calls, e) ==
    /\ steps' = steps \o calls
    /\ Raise(e)
    /\ rbFrom' = "commit"
    /\ pc' = "putconn"

\* commit(): except Exception -> rollback(); raise
CommitFails(calls, e) ==
    /\ steps' = steps \o calls \o <<"rollback">>
    /\ Raise(e)
    /\ rbFrom' = "commit"
    /\ pc' = "rb_db"

\* connection.commit(): the rows of the open transaction become visible
CommitRows == [t \in Tables |-> committed[t] \cup pending[t]]

\* faulty variant: the transforms run before the temp files are promoted
AfterDbCommitSkipsPromotion == "c_transform"

\* commit(): if self.storage._temp_files: commit_temp_files(); then _run_transforms()
AfterDbCommit == IF temp_files # {} THEN "c_promote" ELSE "c_transform"

\* commit(): self._db_conn.commit()
DbCommit ==
    /\ pc = "c_dbcommit"
    /\ \E ok \in BOOLEAN :
         IF ok
         THEN /\ committed' = CommitRows
              /\ pending' = NoRows
              /\ Log("db_commit")
              /\ pc' = AfterDbCommit
              /\ UNCHANGED <<exc, origExc, rbFrom>>
         ELSE /\ CommitFails(<<"db_commit">>, "db_commit")
              /\ UNCHANGED <<committed, pending>>
    /\ UNCHANGED <<ctx, status, db_conn, staged_recognitions, use_temp, batchNo,
                   storeVars, checkedOut, delFailed, objects0, committed0, uses, upload_failed, runVars, smVars, otherVars>>

\* move_file: the object leaves the source path and appears at the destination
AfterMove(src, dst) == [objects EXCEPT ![src] = "absent", ![dst] = objects[src]]

\* commit_temp_files: one turn of the loop over _temp_files (the list is in
\* completion order of the parallel uploads, i.e. in any order); after the
\* last turn the list is cleared
CommitTempFiles ==
    /\ pc = "c_promote"
    /\ \E temp_path \in temp_files \ moved :
       LET perm_path == StripTemp(temp_path) IN
       \E ok \in BOOLEAN :
         IF ok /\ objects[temp_path] # "absent"
         THEN /\ objects' = AfterMove(temp_path, perm_path)
              /\ uploaded_files' = uploaded_files \cup {perm_path}
              /\ Log("promote")
              /\ IF moved \cup {temp_path} = temp_files
                 THEN /\ temp_files' = {}
                      /\ moved' = {}
                      /\ pc' = "c_transform"
                 ELSE /\ moved' = moved \cup {temp_path}
                      /\ UNCHANGED <<temp_files, pc>>
              /\ UNCHANGED <<exc, origExc, rbFrom>>
         ELSE /\ CommitFails(<<"promote">>, "promote")
              /\ moved' = {}
              /\ UNCHANGED <<objects, uploaded_files, temp_files>>
    /\ UNCHANGED <<ctx, status, db_conn, staged_recognitions, use_temp, batchNo,
                   dbVars, delFailed, objects0, committed0, uses, upload_failed, runVars, smVars, otherVars>>

\* a transform procedure: derives the rows of table `dst` from the rows of
\* table `src` visible to the connection
Transformed(src, dst) ==
    [pending EXCEPT ![dst] = @ \cup ((committed[src] \cup pending[src]) \ committed[dst])]

\* _run_transforms: transform_recognitions_and_images, then transform_recipes
RunTransforms ==
    /\ pc = "c_transform"
    /\ \E res \in {"ok", "fail_recognitions", "fail_recipes"} :
         CASE res = "ok" ->
              /\ pending' = [t \in Tables |->
                    IF t = "recognitions"
                    THEN Transformed("raw.recognition_files", "recognitions")[t]
                    ELSE IF t = "recipes" THEN Transformed("raw.recipes", "recipes")[t]
                    ELSE pending[t]]
              /\ steps' = steps \o <<"transform_recognitions", "transform_recipes">>
              /\ pc' = "c_dbcommit2"
              /\ UNCHANGED <<exc, origExc, rbFrom>>
           [] res = "fail_recognitions" ->
              /\ CommitFails(<<"transform_recognitions">>, "transform_recognitions")
              /\ UNCHANGED pending
           [] res = "fail_recipes" ->
              /\ pending' = Transformed("raw.recognition_files", "recognitions")
              /\ CommitFails(<<"transform_recognitions", "transform_recipes">>,
                             "transform_recipes")
    /\ UNCHANGED <<ctx, status, db_conn, staged_recognitions, use_temp, batchNo,
                   storeVars, checkedOut, committed, delFailed, objects0, committed0, uses, upload_failed, runVars, smVars, otherVars>>

\* _run_transforms: the second self._db_conn.commit(); when it succeeds commit()
\* returns and __exit__ sets the status
\* where commit() returns or re-raises to: __exit__, which goes on to its
\* finally clause, or the with-body that called it, which then ends
ReturnsTo(caller) == IF caller = "body" THEN "exit" ELSE "putconn"

\* `self._status = STATUS_COMPLETE` is a statement of __exit__, not of commit()
StatusAfterCommit(caller) == IF caller = "body" THEN status ELSE STATUS_COMPLETE

DbCommit2 ==
    /\ pc = "c_dbcommit2"
    /\ \E ok \in BOOLEAN :
         IF ok
         THEN /\ committed' = CommitRows
              /\ pending' = NoRows
              /\ Log("db_commit2")
              /\ status' = StatusAfterCommit(commit_from)
              /\ pc' = ReturnsTo(commit_from)
              /\ commit_from' = None
              /\ UNCHANGED <<exc, origExc, rbFrom>>
         ELSE /\ CommitFails(<<"db_commit2">>, "db_commit2")
              /\ UNCHANGED <<committed, pending, status, commit_from>>
    /\ UNCHANGED <<ctx, db_conn, staged_recognitions, use_temp, batchNo,
                   storeVars, checkedOut, delFailed, objects0, committed0, uses, upload_failed, runVars, smVars,
                   delVars, procVars, dbopVars, qwenVars,
                   retry_max_attempts, retry_backoff_factor, mv_attempt, mv_log, mv_result, mv_data>>

\* ----------------------------------------------------------- rollback()
\* rollback(), step 1: self._db_conn.rollback() inside try/except; an error
\* of the rollback request is logged and dropped
RollbackDb ==
    /\ pc = "rb_db"
    /\ \E ok \in BOOLEAN :
         /\ pending' = IF db_conn /\ ok THEN NoRows ELSE pending
         /\ Log("db_rollback")
    /\ pc' = "rb_temp"
    /\ UNCHANGED <<ctxVars, storeVars, checkedOut, committed,
                   origExc, delFailed, objects0, committed0, uses, upload_failed, runVars, smVars, otherVars>>

\* delete_batch / delete_file never raise: each path is removed or stays
AfterDelete(gone) == [q \in Paths |-> IF q \in gone THEN "absent" ELSE objects[q]]

\* rollback(), step 2: if self.storage._temp_files: rollback_temp_files()
\* (delete_batch of the tracked temp paths, then _temp_files.clear())
RollbackTemp ==
    /\ pc = "rb_temp"
    /\ IF temp_files # {}
       THEN \E gone \in SUBSET temp_files :
              /\ objects' = AfterDelete(gone)
              /\ delFailed' = (delFailed \/ gone # temp_files)
              /\ temp_files' = {}
              /\ Log("delete_temp")
       ELSE UNCHANGED <<objects, delFailed, temp_files, steps>>
    /\ pc' = "rb_perm"
    /\ UNCHANGED <<ctxVars, uploaded_files, moved, dbVars, origExc, objects0, committed0, uses, upload_failed, runVars, smVars, otherVars>>

\* rollback(), step 3: the test made before the permanent files are deleted
DeletesPermanent == temp_files = {} /\ staged_recognitions # {}

\* rollback(), step 3: delete_recognition_files(rec.recognition_id) for every
\* staged record: whatever is listed under recognitions/<id> is deleted
RollbackPerm ==
    /\ pc = "rb_perm"
    /\ IF DeletesPermanent
       THEN LET listed == UNION {Folder(r) : r \in staged_recognitions} IN
            \E gone \in SUBSET listed :
              /\ objects' = AfterDelete(gone)
              /\ delFailed' = (delFailed \/ gone # listed)
              /\ Log("delete_perm")
       ELSE UNCHANGED <<objects, delFailed, steps>>
    /\ pc' = "rb_ret"
    /\ UNCHANGED <<ctxVars, temp_files, uploaded_files, moved, dbVars,
                   origExc, objects0, committed0, uses, upload_failed, runVars, smVars, otherVars>>

\* the status __exit__ has when rollback() has returned to its caller
StatusAfterRollback == IF rbFrom = "exit" THEN STATUS_ROLLED_BACK ELSE status

\* rollback() returns: to __exit__ (status, return False) or to commit()
\* (raise, which leaves __exit__ through its finally clause)
RollbackReturn ==
    /\ pc = "rb_ret"
    /\ status' = StatusAfterRollback
    /\ pc' = IF rbFrom = "commit" THEN ReturnsTo(commit_from) ELSE "putconn"
    /\ commit_from' = None
    /\ UNCHANGED <<ctx, db_conn, staged_recognitions, use_temp, batchNo, exc, rbFrom,
                   storeVars, dbVars, histVars, runVars, smVars,
                   delVars, procVars, dbopVars, qwenVars,
                   retry_max_attempts, retry_backoff_factor, mv_attempt, mv_log, mv_result, mv_data>>

\* the with-body calls the public commit() itself as its last statement
BodyCommit ==
    /\ pc = "exit"
    /\ ctx = "tx"
    /\ exc = None
    /\ Count(steps, "commit") = 0
    /\ Log("commit")
    /\ commit_from' = "body"
    /\ pc' = "c_dbcommit"
    /\ UNCHANGED <<ctxVars, storeVars, dbVars, origExc, delFailed, objects0, committed0, uses,
                   upload_failed, runVars, smVars,
                   delVars, procVars, dbopVars, qwenVars,
                   retry_max_attempts, retry_backoff_factor, mv_attempt, mv_log, mv_result, mv_data>>

\* the pool a context takes its connection from
Pool == IF ctx = "qwen" THEN "qwen" ELSE "load"

\* faulty variant: the connection is returned on the success path only
ReturnsConnectionOnSuccess == db_conn /\ exc = None

\* finally: if self._db_conn: pool.putconn(self._db_conn); self._db_conn = None
\* (putconn resets a connection that is still inside a transaction)
ReturnsConnection == db_conn

PutConn ==
    /\ pc = "putconn"
    /\ IF ReturnsConnection
       THEN /\ checkedOut' = [checkedOut EXCEPT ![Pool] = @ - 1]
            /\ db_conn' = FALSE
            /\ pending' = NoRows
            /\ Log("putconn")
       ELSE UNCHANGED <<checkedOut, db_conn, pending, steps>>
    /\ pc' = IF ctx = "conn" THEN "gc_idle" ELSE "exited"
    /\ UNCHANGED <<ctx, status, staged_recognitions, use_temp, batchNo, exc, rbFrom,
                   storeVars, committed, origExc, delFailed, objects0, committed0, uses, upload_failed, runVars, smVars, otherVars>>

\* ------------------------------------------------ QwenTransactionContext
AnnIds == 1..(NumRecs + 1)     \* recognition ids named by the annotation file

\* load_qwen_command: runs when the recognitions table is not empty
QwenNew ==
    /\ pc = "exited"
    /\ exc = None
    /\ ctx = "tx"
    /\ batchNo = TotalBatches
    /\ committed["recognitions"] # {}
    /\ pc' = "q_new"
    /\ ctx' = "qwen"
    /\ status' = None
    /\ steps' = <<>>
    /\ origExc' = None
    /\ delFailed' = FALSE
    /\ upload_failed' = 0
    /\ UNCHANGED <<db_conn, staged_recognitions, use_temp, batchNo, exc, rbFrom,
                   storeVars, dbVars, objects0, committed0, uses, runVars, smVars, otherVars>>

\* QwenTransactionContext.__enter__
QwenEnter ==
    /\ pc = "q_new"
    /\ checkedOut' = [checkedOut EXCEPT !["qwen"] = @ + 1]
    /\ db_conn' = TRUE
    /\ objects0' = objects
    /\ committed0' = committed
    /\ Log("enter")
    /\ pc' = "q_body"
    /\ UNCHANGED <<ctx, status, staged_recognitions, use_temp, batchNo, exc, rbFrom,
                   storeVars, pending, committed, origExc, delFailed, uses, upload_failed, runVars, smVars, otherVars>>

\* faulty variant: every row is loaded
FilteredKeepsAll(annotations, existing_recognition_ids) == annotations

\* load_qwen_annotations: [ann for ann in annotations if ann[0] in
\* existing_recognition_ids]; a row is written as its recognition_id
Filtered(annotations, existing_recognition_ids) ==
    SelectSeq(annotations, LAMBDA ann : ann \in existing_recognition_ids)

\* the recognition ids of a list of rows
IdsOf(rows) == {rows[i] : i \in 1..Len(rows)}

\* load_qwen_annotations: filter, bulk_copy when something is left, transform
QwenLoad ==
    /\ pc = "q_body"
    /\ \E n \in 0..MaxAnn : \E annotations \in [1..n -> AnnIds] :
       LET filtered == Filtered(annotations, committed["recognitions"]) IN
       \E res \in {"ok", "fail_copy", "fail_transform"} :
         /\ res = "fail_copy" => filtered # <<>>
         /\ qwen_annotations' = annotations
         /\ qwen_copied' = filtered
         /\ pending' =
              CASE res = "ok" ->
                   [pending EXCEPT !["raw.qwen_annotations"] = @ \cup IdsOf(filtered),
                                   !["initial_tray_items"] =
                                        @ \cup IdsOf(filtered)
                                          \cup committed["raw.qwen_annotations"]]
                [] res = "fail_transform" ->
                   [pending EXCEPT !["raw.qwen_annotations"] = @ \cup IdsOf(filtered)]
                [] OTHER -> pending
         /\ steps' = steps \o (IF filtered # <<>> THEN <<"bulk_load">> ELSE <<>>)
                           \o (IF res # "fail_copy" THEN <<"transform_items">> ELSE <<>>)
         /\ IF res = "ok"
            THEN UNCHANGED <<exc, origExc>>
            ELSE Raise(IF res = "fail_copy" THEN "bulk_load" ELSE "transform_items")
    /\ pc' = "q_exit"
    /\ UNCHANGED <<ctx, status, db_conn, staged_recognitions, use_temp, batchNo, rbFrom,
                   storeVars, checkedOut, committed, delFailed, objects0, committed0, uses,
                   upload_failed, runVars, smVars, lateVars, delVars, procVars, dbopVars>>

\* QwenTransactionContext.__exit__: rollback when the body raised, commit
\* otherwise; an error of either request leaves through the finally clause
QwenExit ==
    /\ pc = "q_exit"
    /\ \E ok \in BOOLEAN :
         IF exc # None
         THEN /\ Log("db_rollback")
              /\ pending' = IF ok THEN NoRows ELSE pending
              /\ exc' = IF ok THEN exc ELSE "db_rollback"
              /\ UNCHANGED <<committed, origExc>>
         ELSE /\ Log("db_commit")
              /\ committed' = IF ok THEN CommitRows ELSE committed
              /\ pending' = IF ok THEN NoRows ELSE pending
              /\ IF ok THEN UNCHANGED <<exc, origExc>> ELSE Raise("db_commit")
    /\ pc' = "putconn"
    /\ UNCHANGED <<ctx, status, db_conn, staged_recognitions, use_temp, batchNo, rbFrom,
                   storeVars, checkedOut, delFailed, objects0, committed0, uses, upload_failed, runVars, smVars, otherVars>>

\* ------------------------------------------ DatabaseManager.get_connection
\* conn = None; conn = self.pool.getconn(); conn.autocommit = False
GetConnection ==
    /\ pc = "gc_idle"
    /\ uses < MaxUses
    /\ uses' = uses + 1
    /\ ctx' = "conn"
    /\ committed0' = committed
    /\ \E ok \in BOOLEAN :
         IF ok
         THEN /\ checkedOut' = [checkedOut EXCEPT !["load"] = @ + 1]
              /\ db_conn' = TRUE
              /\ steps' = <<"getconn">>
              /\ exc' = None
              /\ origExc' = None
              /\ pc' = "gc_body"
         ELSE /\ steps' = <<>>
              /\ exc' = "getconn"
              /\ origExc' = "getconn"
              /\ pc' = "gc_except"
              /\ UNCHANGED <<checkedOut, db_conn>>
    /\ UNCHANGED <<status, staged_recognitions, use_temp, batchNo, rbFrom, storeVars,
                   pending, committed, delFailed, objects0, upload_failed, runVars, smVars, otherVars>>

\* faulty variant: conn.commit() sits in the finally clause
AfterBodyAlwaysCommits(res) == "gc_commit"

\* get_connection: conn.commit() follows the yield, except Exception catches
\* what the body raises
AfterBody(res) == IF res = "raise" THEN "gc_except" ELSE "gc_commit"

\* yield conn: the body of the with statement (bulk_copy's _execute of one
\* row, or a query), which returns or raises
ConnectionBody ==
    /\ pc = "gc_body"
    /\ \E r \in Recs, res \in {"write", "read", "raise"} :
         /\ pending' = IF res = "write"
                       THEN [pending EXCEPT !["raw.recognition_files"] = @ \cup {r}]
                       ELSE pending
         /\ Log("body")
         /\ IF res = "raise" THEN Raise("body") ELSE UNCHANGED <<exc, origExc>>
         /\ pc' = AfterBody(res)
    /\ UNCHANGED <<ctx, status, db_conn, staged_recognitions, use_temp, batchNo, rbFrom,
                   storeVars, checkedOut, committed, delFailed, objects0, committed0, uses, upload_failed, runVars, smVars, otherVars>>

\* conn.commit() after the body returned
ConnectionCommit ==
    /\ pc = "gc_commit"
    /\ Log("db_commit")
    /\ \E ok \in BOOLEAN :
         IF ok
         THEN /\ committed' = CommitRows
              /\ pending' = NoRows
              /\ pc' = "putconn"
              /\ UNCHANGED <<exc, origExc>>
         ELSE /\ Raise("db_commit")
              /\ pc' = "gc_except"
              /\ UNCHANGED <<committed, pending>>
    /\ UNCHANGED <<ctx, status, db_conn, staged_recognitions, use_temp, batchNo, rbFrom,
                   storeVars, checkedOut, delFailed, objects0, committed0, uses, upload_failed, runVars, smVars, otherVars>>

\* except Exception: if conn: conn.rollback(); raise
ConnectionExcept ==
    /\ pc = "gc_except"
    /\ IF db_conn
       THEN \E ok \in BOOLEAN :
              /\ Log("db_rollback")
              /\ pending' = IF ok THEN NoRows ELSE pending
              /\ exc' = IF ok THEN exc ELSE "db_rollback"
       ELSE UNCHANGED <<steps, pending, exc>>
    /\ pc' = "putconn"
    /\ UNCHANGED <<ctx, status, db_conn, staged_recognitions, use_temp, batchNo, rbFrom,
                   storeVars, checkedOut, committed, origExc, delFailed, objects0,
                   committed0, uses, upload_failed, runVars, smVars, otherVars>>

\* ----------------------------------------------------------- load_command
\* get_existing_recognition_ids: the ids of the recognitions table; the empty
\* set when the query raises ("Could not check existing recognitions")
ExistingIds(res) == IF res = "error" THEN {} ELSE committed["recognitions"]

\* load_command: existing_ids = set(); if not args.force: existing_ids = ...
GetExistingIds ==
    /\ pc = "r_lookup"
    /\ IF force
       THEN existing_ids' = {}
       ELSE \E res \in {"ok", "error"} : existing_ids' = ExistingIds(res)
    /\ pc' = "r_process"
    /\ UNCHANGED <<smVars, otherVars, ctxVars, storeVars, dbVars, histVars, run, force, valid,
                   recognitions, rc>>

\* faulty variant: the existing ids are processed again
KeptWhateverExists(dirs, ids, force_reupload) == dirs

\* process_dataset: if existing_ids and not force_reupload: keep the
\* directories whose id is not in existing_ids
Kept(dirs, ids, force_reupload) ==
    IF ids # {} /\ ~force_reupload THEN {d \in dirs : d \notin ids} ELSE dirs

\* the lists in which the workers' results can be collected (as_completed)
Orders(S) ==
    {f \in [1..Cardinality(S) -> S] : \A i, j \in 1..Cardinality(S) : f[i] = f[j] => i = j}

\* process_dataset, then load_command's `if not recognitions: return 0`
ProcessDataset ==
    /\ pc = "r_process"
    /\ \E results \in Orders(Kept(Recs, existing_ids, force) \cap valid) :
         /\ recognitions' = results
         /\ IF results = <<>>
            THEN /\ rc' = Append(rc, 0)
                 /\ pc' = "r_done"
            ELSE /\ rc' = rc
                 /\ pc' = "idle"
    /\ UNCHANGED <<smVars, otherVars, ctxVars, storeVars, dbVars, histVars, run, force, valid, existing_ids>>

\* load_command returns: 0 after the last batch, 1 when a batch raised
\* (__exit__ returns False, `except Exception` of load_command)
\* faulty variant: a failed batch is not reported
ReturnCodeIgnoresFailure == IF exc = "KeyboardInterrupt" THEN 130 ELSE 0

\* load_command: `return 0`, `except KeyboardInterrupt: return 130`,
\* `except Exception: return 1`
ReturnCode ==
    IF exc = None THEN 0 ELSE IF exc = "KeyboardInterrupt" THEN 130 ELSE 1

Return ==
    /\ run # None
    /\ pc = "exited"
    /\ ctx = "tx"
    /\ exc # None \/ batchNo = TotalBatches
    /\ rc' = Append(rc, ReturnCode)
    /\ pc' = "r_done"
    /\ UNCHANGED <<smVars, otherVars, ctxVars, storeVars, dbVars, histVars, run, force, valid,
                   existing_ids, recognitions>>

\* where a KeyboardInterrupt goes: raised in the body it reaches __exit__ as
\* exc_type; raised inside commit() or rollback() it passes their
\* `except Exception` clauses and leaves __exit__ through its finally clause
InterruptedTo(at) == IF at \in {"body", "stage_db"} THEN "exit" ELSE "putconn"

\* a KeyboardInterrupt arrives in the main thread while a batch is staged,
\* committed or rolled back
Interrupt ==
    /\ ctx = "tx"
    /\ pc \in {"body", "stage_db", "c_dbcommit", "c_promote", "c_transform", "c_dbcommit2",
               "rb_db", "rb_temp", "rb_perm"}
    /\ exc # "KeyboardInterrupt"
    /\ Raise("KeyboardInterrupt")
    /\ pc' = InterruptedTo(pc)
    /\ UNCHANGED <<ctx, status, db_conn, staged_recognitions, use_temp, batchNo, rbFrom,
                   moved, temp_files, uploaded_files, objects, dbVars, steps, delFailed, objects0,
                   committed0, uses, upload_failed, runVars, smVars, otherVars>>

\* after a run that returned 0 the command is started again on the same
\* dataset: new StorageManager, DatabaseManager and MetricsCollector, same
\* bucket and database
Rerun ==
    /\ run = "first"
    /\ pc = "r_done"
    /\ rc = <<0>>
    /\ run' = "second"
    /\ pc' = "r_lookup"
    /\ ctx' = None
    /\ status' = None
    /\ staged_recognitions' = {}
    /\ batchNo' = 0
    /\ exc' = None
    /\ rbFrom' = None
    /\ temp_files' = {}
    /\ uploaded_files' = {}
    /\ moved' = {}
    /\ steps' = <<>>
    /\ origExc' = None
    /\ delFailed' = FALSE
    /\ upload_failed' = 0
    /\ existing_ids' = {}
    /\ recognitions' = <<>>
    /\ UNCHANGED <<smVars, otherVars, db_conn, use_temp, objects, dbVars, objects0, committed0, uses,
                   force, valid, rc>>

\* ---------------------------------------------------- AdaptiveRateLimiter
Min(a, b) == IF a < b THEN a ELSE b
Max(a, b) == IF a > b THEN a ELSE b

\* error texts of the store, as lists of words
ErrorTexts ==
    {<<"HTTP", "429">>, <<"Rate", "Limit", "exceeded">>, <<"Too", "Many", "Requests">>,
     <<"rate", "exceeded", "limit">>, <<"connection", "timeout">>,
     <<"Duplicate">>, <<"resource", "already", "exists">>}
\* str.lower()
LowerWord(w) ==
    CASE w = "HTTP" -> "http" [] w = "Rate" -> "rate" [] w = "Limit" -> "limit"
      [] w = "Too" -> "too" [] w = "Many" -> "many" [] w = "Requests" -> "requests"
      [] w = "Duplicate" -> "duplicate" [] OTHER -> w
Lower(text) == [i \in 1..Len(text) |-> LowerWord(text[i])]
\* `phrase in text`
Contains(text, phrase) ==
    \E i \in 0..(Len(text) - Len(phrase)) :
        \A j \in 1..Len(phrase) : text[i + j] = phrase[j]

\* record_error: "429" in s or "rate limit" in s or "too many requests" in s
IsRateLimit(error) ==
    LET error_str == Lower(error) IN
    \/ Contains(error_str, <<"429">>)
    \/ Contains(error_str, <<"rate", "limit">>)
    \/ Contains(error_str, <<"too", "many", "requests">>)

\* faulty variant: the increase is not capped
IncreasedUncapped(d) == Max(min_increase, d * increase_factor)

\* faulty variant: the increase has no floor of 0.5 s
IncreasedWithoutFloor(d) == Min(max_delay, d * increase_factor)

\* record_error: min(max_delay, max(0.5, current_delay * increase_factor))
Increased(d) == Min(max_delay, Max(min_increase, d * increase_factor))

\* faulty variant: a decrease goes back to the initial delay at once
DecreasedToInitial(l) == l.initial_delay

\* record_success: max(initial_delay, current_delay * decrease_factor), factor 0.5
Decreased(l) == Max(l.initial_delay, l.current_delay \div 2)

\* record_success: the branch that lowers the delay and resets the counter
Decreases(l, count) == count >= success_threshold /\ l.current_delay > 0

RecordSuccess(l) ==
    LET count == l.success_count + 1 IN
    IF Decreases(l, count)
    THEN [l EXCEPT !.current_delay = Decreased(l), !.success_count = 0]
    ELSE [l EXCEPT !.success_count = count]

\* faulty variant: every error raises the delay
RaisesDelayAlways(error) == TRUE

\* record_error: if is_rate_limit
RaisesDelay(error) == IsRateLimit(error)

RecordError(l, error) ==
    LET counted == [l EXCEPT !.error_count = @ + 1, !.success_count = 0] IN
    IF RaisesDelay(error)
    THEN [counted EXCEPT !.current_delay = Increased(l.current_delay)]
    ELSE counted

\* reset()
Reset(l) == [l EXCEPT !.current_delay = l.initial_delay,
                      !.success_count = 0, !.error_count = 0]

CallRecordSuccess ==
    /\ pc = "limiter"
    /\ lim_calls < MaxCalls
    /\ rate_limiter' = RecordSuccess(rate_limiter)
    /\ last' = [op |-> "record_success", error |-> <<>>, before |-> rate_limiter]
    /\ lim_calls' = lim_calls + 1
    /\ UNCHANGED <<flowVars, otherVars, upVars, parVars>>

CallRecordError ==
    /\ pc = "limiter"
    /\ lim_calls < MaxCalls
    /\ \E error \in ErrorTexts :
         /\ rate_limiter' = RecordError(rate_limiter, error)
         /\ last' = [op |-> "record_error", error |-> error, before |-> rate_limiter]
    /\ lim_calls' = lim_calls + 1
    /\ UNCHANGED <<flowVars, otherVars, upVars, parVars>>

CallReset ==
    /\ pc = "limiter"
    /\ lim_calls < MaxCalls
    /\ rate_limiter' = Reset(rate_limiter)
    /\ last' = [op |-> "reset", error |-> <<>>, before |-> rate_limiter]
    /\ lim_calls' = lim_calls + 1
    /\ UNCHANGED <<flowVars, otherVars, upVars, parVars>>

\* ------------------------------------- StorageManager.upload_file, batch_upload
\* the i-th pair of the list: the images of the records, camera 1 then
\* camera 2; a list longer than that names the same paths again
FileAt(i) == PermPath((((i - 1) \div 2) % NumRecs) + 1, ((i - 1) % 2) + 1)

\* random.uniform(0, 0.5) of the backoff, uniform(0, 0.1 * delay) of wait()
BackoffJitters == {0, Second \div 2}
PaceJitters(d) == {0, d \div 10}

\* exceptions of the upload request: throttling, a transport error, and the
\* two texts the store uses for an object that is already there
StoreErrors ==
    {<<"HTTP", "429">>, <<"connection", "timeout">>,
     <<"Duplicate">>, <<"resource", "already", "exists">>}

\* answers of the store to one upload request: <<>> is success, anything
\* else the text of the exception; the store says 'already exists' only for
\* an object it holds
Answers(target) ==
    IF backend_x < 0
    THEN {<<>>} \cup {e \in StoreErrors :
                         (e \in {<<"Duplicate">>, <<"resource", "already", "exists">>})
                             => objects[target] # "absent"}
    ELSE {IF rate_limiter.current_delay < backend_x THEN <<"HTTP", "429">> ELSE <<>>}

\* upload_file: if use_rate_limit and rate_strategy != 'none'
Paces(strategy) == strategy # "none"

\* faulty variant: every strategy that paces also records the outcomes
AdaptsWhenPacing(strategy) == strategy # "none"

\* upload_file: if rate_strategy == 'adaptive'
Adapts(strategy) == strategy = "adaptive"

\* _sequential_upload calls upload_file for the next pair; upload_file up to
\* its first request: rate_limiter.wait() sleeps when the delay is positive
UploadCall ==
    /\ pc = "u_loop"
    /\ file_no < nfiles
    /\ file_no' = file_no + 1
    /\ call_log' = Append(call_log, <<"start", file_no + 1>>)
    /\ attempt' = 0
    /\ result' = NoResult
    /\ IF Paces(rate_strategy)
       THEN \E jitter \in PaceJitters(rate_limiter.current_delay) :
              trace' = <<<<"wait", rate_limiter.current_delay, jitter>>>>
       ELSE trace' = <<>>
    /\ pc' = "u_request"
    /\ UNCHANGED <<ctxVars, storeVars, dbVars, histVars, runVars, otherVars, limVars, rate_strategy,
                   nfiles, backend_x, successful_count, failed_count, req_before, parVars>>

\* faulty variant: only the word 'Duplicate' is recognised
IsDuplicateByFirstPhrase(error) == Contains(error, <<"Duplicate">>)

\* upload_file: "Duplicate" in str(e) or "already exists" in str(e)
IsDuplicate(error) ==
    \/ Contains(error, <<"Duplicate">>)
    \/ Contains(error, <<"already", "exists">>)

\* faulty variant: one more attempt
RetriesOnceMore(n) == n < max_attempts

\* upload_file: if attempt < max_attempts - 1 (sleep, then the next attempt)
Retries(n) == n < max_attempts - 1

\* faulty variant: the first call that raises ends the batch
AfterRaiseStops == "u_done"

\* _sequential_upload: `except Exception` inside the loop, the loop goes on
AfterRaise == "u_loop"

\* one pass of upload_file's loop: the request and what follows its answer
UploadAttempt(target, answer) ==
    /\ req_before' = [limiter |-> rate_limiter, successful |-> successful_count,
                      failed |-> failed_count]
    /\ IF answer = <<>>
       THEN \* stored (upsert), tracked, record_success, return True
            /\ objects' = [objects EXCEPT ![target] = "new"]
            /\ temp_files' = IF use_temp THEN temp_files \cup {target} ELSE temp_files
            /\ uploaded_files' = IF use_temp THEN uploaded_files
                                 ELSE uploaded_files \cup {target}
            /\ rate_limiter' = IF Adapts(rate_strategy) THEN RecordSuccess(rate_limiter)
                               ELSE rate_limiter
            /\ trace' = trace \o <<<<"request", answer>>, <<"return">>>>
            /\ result' = [returned |-> TRUE, raised |-> <<>>]
            /\ successful_count' = successful_count + 1
            /\ call_log' = Append(call_log, <<"end", file_no, "True">>)
            /\ pc' = "u_loop"
            /\ UNCHANGED <<attempt, failed_count>>
       ELSE IF IsDuplicate(answer)
       THEN \* tracked in _uploaded_files, return True
            /\ uploaded_files' = uploaded_files \cup {target}
            /\ trace' = trace \o <<<<"request", answer>>, <<"return">>>>
            /\ result' = [returned |-> TRUE, raised |-> <<>>]
            /\ successful_count' = successful_count + 1
            /\ call_log' = Append(call_log, <<"end", file_no, "True">>)
            /\ pc' = "u_loop"
            /\ UNCHANGED <<objects, temp_files, rate_limiter, attempt, failed_count>>
       ELSE \* record_error, then sleep and go on, or raise last_exception
            /\ rate_limiter' = IF Adapts(rate_strategy)
                               THEN RecordError(rate_limiter, answer)
                               ELSE rate_limiter
            /\ IF Retries(attempt)
               THEN /\ \E jitter \in BackoffJitters :
                         trace' = trace \o <<<<"request", answer>>,
                                             <<"sleep", (2 ^ attempt) * Second, jitter>>>>
                    /\ attempt' = attempt + 1
                    /\ UNCHANGED <<result, failed_count, pc, call_log>>
               ELSE /\ trace' = trace \o <<<<"request", answer>>, <<"raise", answer>>>>
                    /\ result' = [returned |-> FALSE, raised |-> answer]
                    /\ failed_count' = failed_count + 1
                    /\ call_log' = Append(call_log, <<"end", file_no, "raised">>)
                    /\ pc' = AfterRaise
                    /\ UNCHANGED attempt
            /\ UNCHANGED <<objects, temp_files, uploaded_files, successful_count>>
    /\ UNCHANGED <<ctxVars, moved, dbVars, histVars, runVars, otherVars, lim_calls, last,
                   rate_strategy, nfiles, backend_x, file_no, parVars>>

UploadRequest ==
    /\ pc = "u_request"
    /\ LET target == Target(FileAt(file_no), use_temp) IN
       \E answer \in Answers(target) : UploadAttempt(target, answer)

\* ----------------------------------------------------- _parallel_upload
\* a free executor thread takes the next submitted upload_file call; the call
\* starts with rate_limiter.wait(), which reads the delay without the lock
\* and sleeps
TakeTask(w) ==
    /\ pc = "parallel"
    /\ wpc[w] = "idle"
    /\ file_no < nfiles
    /\ file_no' = file_no + 1
    /\ wfile' = [wfile EXCEPT ![w] = file_no + 1]
    /\ call_log' = Append(call_log, <<"start", file_no + 1>>)
    /\ wattempt' = [wattempt EXCEPT ![w] = 0]
    /\ wpc' = [wpc EXCEPT ![w] = IF Paces(rate_strategy) THEN "sleeping" ELSE "requesting"]
    /\ UNCHANGED <<flowVars, otherVars, limVars, rate_strategy, nfiles, backend_x, attempt,
                   successful_count, failed_count, result, trace, req_before,
                   wanswer, wlocal, lock, seq_limiter, recorded>>

\* time.sleep returns: in wait() or after a failed attempt
Wake(w) ==
    /\ pc = "parallel"
    /\ wpc[w] \in {"sleeping", "backoff"}
    /\ wpc' = [wpc EXCEPT ![w] = "requesting"]
    /\ UNCHANGED <<flowVars, otherVars, limVars, upVars, wfile, wattempt, wanswer, wlocal, lock,
                   seq_limiter, recorded>>

\* the upload request of one attempt and its answer; a duplicate answer
\* returns True, every other answer goes on to a limiter call
Request(w) ==
    /\ pc = "parallel"
    /\ wpc[w] = "requesting"
    /\ LET target == Target(FileAt(wfile[w]), use_temp) IN
       \E answer \in Answers(target) :
         /\ wanswer' = [wanswer EXCEPT ![w] = IF IsDuplicate(answer) THEN <<>> ELSE answer]
         /\ IF answer = <<>>
            THEN /\ objects' = [objects EXCEPT ![target] = "new"]
                 /\ temp_files' = IF use_temp THEN temp_files \cup {target} ELSE temp_files
                 /\ uploaded_files' = IF use_temp THEN uploaded_files
                                      ELSE uploaded_files \cup {target}
                 /\ wpc' = [wpc EXCEPT ![w] = "locking"]
                 /\ UNCHANGED <<successful_count, call_log>>
            ELSE IF IsDuplicate(answer)
            THEN /\ uploaded_files' = uploaded_files \cup {target}
                 /\ successful_count' = successful_count + 1
                 /\ call_log' = Append(call_log, <<"end", wfile[w], "True">>)
                 /\ wpc' = [wpc EXCEPT ![w] = "idle"]
                 /\ UNCHANGED <<objects, temp_files>>
            ELSE /\ wpc' = [wpc EXCEPT ![w] = "locking"]
                 /\ UNCHANGED <<objects, temp_files, uploaded_files, successful_count,
                                call_log>>
    /\ UNCHANGED <<pc, ctxVars, moved, dbVars, histVars, runVars, otherVars, limVars, rate_strategy,
                   nfiles, backend_x, file_no, attempt, failed_count, result, trace,
                   req_before, wfile, wattempt, wlocal, lock, seq_limiter, recorded>>

\* faulty variant: the block is entered without the lock
CanAcquireAlways(holder) == TRUE

\* `with self._lock`: a thread enters when no thread holds the lock
CanAcquire(holder) == holder = 0

\* record_success / record_error: the lock is taken and the fields are read
Acquire(w) ==
    /\ pc = "parallel"
    /\ wpc[w] = "locking"
    /\ CanAcquire(lock)
    /\ lock' = w
    /\ wlocal' = [wlocal EXCEPT ![w] = rate_limiter]
    /\ wpc' = [wpc EXCEPT ![w] = "locked"]
    /\ UNCHANGED <<flowVars, otherVars, limVars, upVars, wfile, wattempt, wanswer, seq_limiter,
                   recorded>>

\* the fields are written and the lock is released; upload_file then
\* returns True, sleeps before the next attempt, or raises
WriteRelease(w) ==
    /\ pc = "parallel"
    /\ wpc[w] = "locked"
    /\ lock' = 0
    /\ wlocal' = [wlocal EXCEPT ![w] = NewLimiter(0)]
    /\ wanswer' = [wanswer EXCEPT ![w] = <<>>]
    /\ IF wanswer[w] = <<>>
       THEN /\ rate_limiter' = RecordSuccess(wlocal[w])
            /\ seq_limiter' = RecordSuccess(seq_limiter)
            /\ successful_count' = successful_count + 1
            /\ call_log' = Append(call_log, <<"end", wfile[w], "True">>)
            /\ wpc' = [wpc EXCEPT ![w] = "idle"]
            /\ UNCHANGED <<recorded, wattempt, failed_count>>
       ELSE /\ rate_limiter' = RecordError(wlocal[w], wanswer[w])
            /\ seq_limiter' = RecordError(seq_limiter, wanswer[w])
            /\ recorded' = recorded + 1
            /\ IF Retries(wattempt[w])
               THEN /\ wattempt' = [wattempt EXCEPT ![w] = @ + 1]
                    /\ wpc' = [wpc EXCEPT ![w] = "backoff"]
                    /\ UNCHANGED <<failed_count, call_log>>
               ELSE /\ failed_count' = failed_count + 1
                    /\ call_log' = Append(call_log, <<"end", wfile[w], "raised">>)
                    /\ wpc' = [wpc EXCEPT ![w] = "idle"]
                    /\ UNCHANGED wattempt
            /\ UNCHANGED successful_count
    /\ UNCHANGED <<flowVars, otherVars, lim_calls, last, rate_strategy, nfiles, backend_x, file_no,
                   attempt, result, trace, req_before, wfile>>

\* batch_upload: if max_workers == 1
Sequential(max_workers) == max_workers = 1

\* batch_upload: _sequential_upload or _parallel_upload
BatchUpload ==
    /\ pc = "batch_upload"
    /\ \E max_workers \in {1, thread_count} :
         pc' = IF Sequential(max_workers) THEN "u_loop" ELSE "parallel"
    /\ UNCHANGED <<ctxVars, storeVars, dbVars, histVars, runVars, smVars, otherVars>>

\* ------------------------------------------- StorageManager.delete_batch
\* storage_client.from_(bucket).remove(paths): the objects are gone when the
\* request is answered, nothing is removed when it raises
Removed(ps, ok) ==
    [p \in Paths |-> IF ok /\ \E i \in 1..Len(ps) : ps[i] = p THEN "absent" ELSE objects[p]]

\* faulty variant: a failed bulk request ends delete_batch
AfterBulkFailureReturns == "d_return"

\* delete_batch: except Exception, then the loop over the paths
AfterBulkFailure == "d_loop"

\* delete_batch: one remove(paths); successful = len(paths) when it is answered
DeleteBulk ==
    /\ pc = "delete_batch"
    /\ \E ok \in BOOLEAN :
         /\ del_log' = Append(del_log, [paths |-> del_paths, ok |-> ok])
         /\ objects' = Removed(del_paths, ok)
         /\ del_successful' = IF ok THEN Len(del_paths) ELSE del_successful
         /\ pc' = IF ok THEN "d_return" ELSE AfterBulkFailure
    /\ UNCHANGED <<ctxVars, temp_files, uploaded_files, moved, dbVars, histVars, runVars,
                   smVars, lateVars, qwenVars, dbopVars, procVars, del_paths, del_failed, del_i, del_result>>

\* delete_file: remove([path]); True when answered, False when it raised (the
\* exception is caught inside, so retry_with_backoff sees no exception)
DeleteFile ==
    /\ pc = "d_loop"
    /\ del_i < Len(del_paths)
    /\ \E ok \in BOOLEAN :
         /\ del_log' = Append(del_log, [paths |-> <<del_paths[del_i + 1]>>, ok |-> ok])
         /\ objects' = Removed(<<del_paths[del_i + 1]>>, ok)
         /\ del_successful' = IF ok THEN del_successful + 1 ELSE del_successful
         /\ del_failed' = IF ok THEN del_failed ELSE del_failed + 1
    /\ del_i' = del_i + 1
    /\ UNCHANGED <<pc, ctxVars, temp_files, uploaded_files, moved, dbVars, histVars, runVars,
                   smVars, lateVars, qwenVars, dbopVars, procVars, del_paths, del_result>>

\* delete_batch: the loop is over; return successful, failed
DeleteReturn ==
    /\ \/ pc = "d_return"
       \/ pc = "d_loop" /\ del_i = Len(del_paths)
    /\ del_result' = <<del_successful, del_failed>>
    /\ pc' = "d_done"
    /\ UNCHANGED <<ctxVars, storeVars, dbVars, histVars, runVars, smVars, lateVars, qwenVars, dbopVars, procVars,
                   del_paths, del_successful, del_failed, del_i, del_log>>

\* ------------------------------------- DatasetScanner, RecognitionProcessor
\* what a record directory can hold
Kinds == {"complete", "no_recipe", "no_menu", "one_image", "three_images",
          "bad_image", "bad_menu"}

\* sorted(...): names of one width, so name order is the order of the numbers
Sorted(S) == CHOOSE f \in Orders(S) : \A i \in 1..(Cardinality(S) - 1) : f[i] < f[i + 1]

\* scan_recognitions: export_dirs[0] of the sorted export directories
ChosenExport(E) == Sorted(E)[1]

\* scan_recognitions: recognition_dirs[:limit] when limit is given
Truncated(dirs, limit) ==
    IF limit > 0 /\ limit < Len(dirs) THEN SubSeq(dirs, 1, limit) ELSE dirs

\* scan_recognitions(dataset_path, limit)
ScanRecognitionsOf(E, limit) ==
    Truncated(IF E # {} THEN Sorted(export_recs[ChosenExport(E)]) ELSE Sorted(direct_recs),
              limit)

\* _process_images: the number of *.jpg / *.jpeg files found
ImageCount(kind) ==
    CASE kind = "one_image" -> 1 [] kind = "three_images" -> 3 [] OTHER -> 2

\* _process_images: the two tuples, None for another count or an image that
\* cannot be read
ProcessImages(kind) == ImageCount(kind) = 2 /\ kind # "bad_image"

\* _load_active_menu: the parsed AM.json, None without the file; json.load
\* raises for a file that is not JSON
LoadActiveMenu(kind) ==
    CASE kind = "no_menu" -> None [] kind = "bad_menu" -> "raises" [] OTHER -> "menu"

\* _load_recipe: the parsed correct_dishes file, None without the file
LoadRecipe(kind) == IF kind = "no_recipe" THEN None ELSE "recipe"

\* process_recognition: <<RecognitionData>> or <<>> for None, and what it
\* adds to the counters
ProcessRecognition(d) ==
    LET kind == dir_kind[d] IN
    IF LoadActiveMenu(kind) = "raises"
    THEN [data |-> <<>>, processed |-> 0, failed |-> 1]
    ELSE IF ~ProcessImages(kind)
    THEN [data |-> <<>>, processed |-> 0, failed |-> 0]
    ELSE [data |-> <<[recognition_id |-> d,
                      active_menu |-> LoadActiveMenu(kind),
                      recipe_payload |-> LoadRecipe(kind)]>>,
          processed |-> 1, failed |-> 0]

\* scan_recognitions
ScanRecognitions ==
    /\ pc = "scan"
    /\ recognition_dirs' = ScanRecognitionsOf(exports, scan_limit)
    /\ scan_export' = IF exports # {} THEN ChosenExport(exports) ELSE 0
    /\ pc' = "scanned"
    /\ UNCHANGED <<ctxVars, storeVars, dbVars, histVars, runVars, smVars, lateVars, qwenVars, dbopVars, delVars,
                   exports, export_recs, direct_recs, dir_kind, scan_limit,
                   futures, proc_results, proc_returned, processed, metrics>>

\* process_dataset after the scan: return [] for no directory, drop the
\* existing ids, return [] when nothing is left, submit the rest to the pool
SubmitAll ==
    /\ pc = "scanned"
    /\ LET kept == SelectSeq(recognition_dirs,
                             LAMBDA d : d \in Kept(Recs, existing_ids, force))
       IN /\ recognition_dirs' = kept
          /\ futures' = 1..Len(kept)
          /\ proc_returned' = (kept = <<>>)
          /\ pc' = IF kept = <<>> THEN "p_done" ELSE "p_pool"
    /\ UNCHANGED <<ctxVars, storeVars, dbVars, histVars, runVars, smVars, lateVars, qwenVars, dbopVars, delVars,
                   exports, export_recs, direct_recs, dir_kind, scan_limit, scan_export,
                   proc_results, processed, metrics>>

\* one task of the pool runs process_recognition and is collected by
\* as_completed: `if result: results.append(result)`
Complete(i) ==
    /\ pc = "p_pool"
    /\ i \in futures
    /\ LET out == ProcessRecognition(recognition_dirs[i])
       IN /\ proc_results' = proc_results \o out.data
          /\ metrics' = [recognitions_processed |-> metrics.recognitions_processed + out.processed,
                         recognitions_failed |-> metrics.recognitions_failed + out.failed]
    /\ processed' = Append(processed, recognition_dirs[i])
    /\ futures' = futures \ {i}
    /\ UNCHANGED <<pc, ctxVars, storeVars, dbVars, histVars, runVars, smVars, lateVars, qwenVars, dbopVars, delVars,
                   exports, export_recs, direct_recs, dir_kind, scan_limit, scan_export,
                   recognition_dirs, proc_returned>>

\* every future is collected: return results
ReturnResults ==
    /\ pc = "p_pool"
    /\ futures = {}
    /\ proc_returned' = TRUE
    /\ pc' = "p_done"
    /\ UNCHANGED <<ctxVars, storeVars, dbVars, histVars, runVars, smVars, lateVars, qwenVars, dbopVars, delVars,
                   exports, export_recs, direct_recs, dir_kind, scan_limit, scan_export,
                   recognition_dirs, futures, proc_results, processed, metrics>>

\* ------------------------------------------------- StorageManager.move_file
\* @retry_with_backoff(max_attempts=3, backoff_factor=2.0) on move_file
move_max_attempts == 3
\* the decorator tries again: `if attempt < max_attempts - 1`
DecoratorRetries(n, most) == n < most - 1

\* the file being promoted and where it goes
mv_source == TempPath(PermPath(1, 1))
mv_dest == PermPath(1, 1)

\* a request is answered, raises without effect, or raises after the store
\* applied it (the answer was lost)
MoveAnswers == {"ok", "error", "late"}

\* faulty variant: the source is deleted before the copy is written
FallbackOrderDeletesFirst == <<"mv_download", "mv_remove", "mv_upload">>

\* the fallback of move_file: download, upload to the destination, remove
\* the source
FallbackOrder == <<"mv_download", "mv_upload", "mv_remove">>

\* the statement after a request of the fallback that returned
AfterStep(step) ==
    LET i == CHOOSE k \in 1..Len(FallbackOrder) : FallbackOrder[k] = step
    IN IF i = Len(FallbackOrder) THEN "mv_done" ELSE FallbackOrder[i + 1]

\* a request of the fallback returned or raised: the next statement, or the
\* exception goes to the decorator, which calls move_file again or re-raises
Proceed(step, returned) ==
    IF returned
    THEN /\ pc' = AfterStep(step)
         /\ mv_result' = IF AfterStep(step) = "mv_done" THEN "True" ELSE mv_result
         /\ UNCHANGED mv_attempt
    ELSE IF DecoratorRetries(mv_attempt, move_max_attempts)
         THEN /\ pc' = "mv_move"
              /\ mv_attempt' = mv_attempt + 1
              /\ UNCHANGED mv_result
         ELSE /\ pc' = "mv_done"
              /\ mv_result' = "raised"
              /\ UNCHANGED mv_attempt

Requested(op, ans) == Append(mv_log, [op |-> op, ans |-> ans, attempt |-> mv_attempt])

\* storage_client.move(source_path, dest_path); `return True`, or the
\* fallback when it raised
NativeMove ==
    /\ pc = "mv_move"
    /\ \E ans \in MoveAnswers :
         /\ objects[mv_source] = "absent" => ans = "error"
         /\ mv_log' = Requested("move", ans)
         /\ objects' = IF ans = "error" THEN objects ELSE AfterMove(mv_source, mv_dest)
         /\ pc' = IF ans = "ok" THEN "mv_done" ELSE FallbackOrder[1]
         /\ mv_result' = IF ans = "ok" THEN "True" ELSE mv_result
    /\ UNCHANGED <<ctxVars, temp_files, uploaded_files, moved, dbVars, histVars, runVars, smVars,
                   delVars, procVars, dbopVars, qwenVars, commit_from, retry_max_attempts,
                   retry_backoff_factor, mv_attempt, mv_data>>

\* response = storage_client.download(source_path)
MoveDownload ==
    /\ pc = "mv_download"
    /\ \E ans \in {"ok", "error"} :
         /\ objects[mv_source] = "absent" => ans = "error"
         /\ mv_log' = Requested("download", ans)
         /\ mv_data' = IF ans = "ok" THEN objects[mv_source] ELSE mv_data
         /\ Proceed("mv_download", ans = "ok")
    /\ UNCHANGED <<ctxVars, storeVars, dbVars, histVars, runVars, smVars,
                   delVars, procVars, dbopVars, qwenVars, commit_from, retry_max_attempts,
                   retry_backoff_factor>>

\* storage_client.upload(path=dest_path, file=response, upsert)
MoveUpload ==
    /\ pc = "mv_upload"
    /\ \E ans \in MoveAnswers :
         /\ mv_log' = Requested("upload", ans)
         /\ objects' = IF ans = "error" THEN objects
                       ELSE [objects EXCEPT ![mv_dest] = mv_data]
         /\ Proceed("mv_upload", ans = "ok")
    /\ UNCHANGED <<ctxVars, temp_files, uploaded_files, moved, dbVars, histVars, runVars, smVars,
                   delVars, procVars, dbopVars, qwenVars, commit_from, retry_max_attempts,
                   retry_backoff_factor, mv_data>>

\* storage_client.remove([source_path]); `return True`
MoveRemove ==
    /\ pc = "mv_remove"
    /\ \E ans \in MoveAnswers :
         /\ mv_log' = Requested("remove", ans)
         /\ objects' = IF ans = "error" THEN objects
                       ELSE [objects EXCEPT ![mv_source] = "absent"]
         /\ Proceed("mv_remove", ans = "ok")
    /\ UNCHANGED <<ctxVars, temp_files, uploaded_files, moved, dbVars, histVars, runVars, smVars,
                   delVars, procVars, dbopVars, qwenVars, commit_from, retry_max_attempts,
                   retry_backoff_factor, mv_data>>

\* a KeyboardInterrupt reaches the main thread inside the `with
\* ThreadPoolExecutor` block of _parallel_upload: the block is left through
\* executor.__exit__, which is shutdown(wait=True) and cancels no future, so
\* the threads go on taking the queued work items
InterruptPool ==
    /\ pc = "parallel"
    /\ \A i \in 1..Len(call_log) : call_log[i][1] # "interrupt"
    /\ call_log' = Append(call_log, <<"interrupt", file_no>>)
    /\ UNCHANGED <<flowVars, otherVars, limVars, rate_strategy, nfiles, backend_x, file_no,
                   attempt, successful_count, failed_count, result, trace, req_before,
                   parVars>>

\* ------------------------------------------- DatabaseManager operations
\* the statement of an operation and the table its rows go to
DbOps == {"bulk_copy", "execute_query", "call_function"}
TableOf(name) ==
    CASE name = "bulk_copy" -> "raw.recognition_files"
      [] name = "execute_query" -> "raw.recipes"
      [] OTHER -> "recognitions"

\* bulk_copy: `if not rows: return 0` before any connection is touched
Executes(name, rows) == ~(name = "bulk_copy" /\ rows = {})

\* faulty variant: the operation closes the transaction of any connection
OwnsConnectionAlways(with_conn) == TRUE

\* `if conn: _execute(conn) else: with self.get_connection() as connection`
OwnsConnection(with_conn) == ~with_conn

\* what happens on the connection of one statement: on the caller's
\* connection the statement only; on a pooled one getconn, the statement,
\* commit after a statement that returned, rollback after anything that
\* raised, and putconn in the finally clause
Events(owns, getconn_ok, stmt_ok, commit_ok) ==
    IF ~owns THEN <<"execute">>
    ELSE IF ~getconn_ok THEN <<"getconn">>
    ELSE <<"getconn", "execute">>
         \o (IF stmt_ok THEN <<"commit">> ELSE <<>>)
         \o (IF stmt_ok /\ commit_ok THEN <<>> ELSE <<"rollback">>)
         \o <<"putconn">>

\* the statement raised, or get_connection raised around it
Raises(owns, getconn_ok, stmt_ok, commit_ok) ==
    IF owns THEN ~(getconn_ok /\ stmt_ok /\ commit_ok) ELSE ~stmt_ok

\* bulk_copy / execute_query / call_function(..., conn)
DbOp ==
    /\ pc = "db_ops"
    /\ op_calls < MaxOps
    /\ op_calls' = op_calls + 1
    /\ committed0' = committed
    /\ \E name \in DbOps, with_conn \in BOOLEAN, rows \in SUBSET Recs,
          getconn_ok \in BOOLEAN, stmt_ok \in BOOLEAN, commit_ok \in BOOLEAN :
         LET owns == OwnsConnection(with_conn)
             raised == Raises(owns, getconn_ok, stmt_ok, commit_ok)
             written == [pending EXCEPT ![TableOf(name)] = @ \cup rows]
         IN
         \* the outcomes that play no part are fixed
         /\ (~owns \/ ~getconn_ok) => commit_ok
         /\ (owns /\ ~getconn_ok) => stmt_ok
         /\ ~stmt_ok => commit_ok
         \* nothing goes into a table that is not there
         /\ (TableOf(name) = "recognitions" /\ ~table_exists) => rows = {}
         /\ IF ~Executes(name, rows)
            THEN /\ op_last' = [name |-> name, with_conn |-> with_conn, rows |-> rows,
                                events |-> <<>>, raised |-> FALSE, value |-> {},
                                pending0 |-> pending]
                 /\ getconn_ok /\ stmt_ok /\ commit_ok
                 /\ UNCHANGED <<pending, committed>>
            ELSE /\ op_last' = [name |-> name, with_conn |-> with_conn, rows |-> rows,
                                events |-> Events(owns, getconn_ok, stmt_ok, commit_ok),
                                raised |-> raised, value |-> {}, pending0 |-> pending]
                 /\ IF owns
                    THEN \* a pooled connection of its own: pending is the caller's
                         /\ committed' = IF raised THEN committed
                                         ELSE [committed EXCEPT ![TableOf(name)] = @ \cup rows]
                         /\ UNCHANGED pending
                    ELSE /\ pending' = IF stmt_ok THEN written ELSE pending
                         /\ UNCHANGED committed
    /\ UNCHANGED <<pc, ctxVars, storeVars, checkedOut, steps, origExc, delFailed, objects0,
                   uses, upload_failed, runVars, smVars, lateVars, qwenVars, delVars, procVars, table_exists>>

\* get_existing_recognition_ids(conn): the table check, then the id query,
\* each an execute_query; `except Exception` returns set()
GetExistingRecognitionIds ==
    /\ pc = "db_ops"
    /\ op_calls < MaxOps
    /\ op_calls' = op_calls + 1
    /\ committed0' = committed
    /\ \E with_conn \in BOOLEAN, check \in {"ok", "error"}, res \in {"ok", "error"} :
         LET owns == OwnsConnection(with_conn)
             one(r) == Events(owns, TRUE, r = "ok", TRUE)
         IN
         /\ (check = "error" \/ ~table_exists) => res = "ok"
         /\ op_last' =
              [name |-> "get_existing_recognition_ids", with_conn |-> with_conn,
               rows |-> {},
               events |-> IF check = "ok" /\ table_exists
                          THEN one(check) \o one(res) ELSE one(check),
               raised |-> FALSE,
               value |-> IF check = "error" \/ ~table_exists THEN {} ELSE ExistingIds(res),
               pending0 |-> pending]
    /\ UNCHANGED <<pc, ctxVars, storeVars, dbVars, steps, origExc, delFailed, objects0,
                   uses, upload_failed, runVars, smVars, lateVars, qwenVars, delVars, procVars, table_exists>>

\* --------------------------------------------------------- specifications
Next ==
    \/ NewContext
    \/ Enter
    \/ StageImages
    \/ StageDatabase
    \/ Exit
    \/ DbCommit
    \/ CommitTempFiles
    \/ RunTransforms
    \/ DbCommit2
    \/ RollbackDb
    \/ RollbackTemp
    \/ RollbackPerm
    \/ RollbackReturn
    \/ PutConn
    \/ QwenNew
    \/ QwenEnter
    \/ QwenLoad
    \/ QwenExit

Spec == Init /\ [][Next]_vars

\* a sequence of get_connection uses on an empty database
PoolInit ==
    /\ InitCommon
    /\ InitOther
    /\ InitRun
    /\ InitSm
    /\ pc = "gc_idle"
    /\ objects = [p \in Paths |-> "absent"]
    /\ objects0 = objects

PoolNext ==
    \/ GetConnection
    \/ ConnectionBody
    \/ ConnectionCommit
    \/ ConnectionExcept
    \/ PutConn

PoolSpec == PoolInit /\ [][PoolNext]_vars

\* load_command run twice over the same dataset, bucket and database empty
\* before the first run
RerunInit ==
    /\ InitCommon
    /\ InitOther
    /\ InitSm
    /\ pc = "r_lookup"
    /\ objects = [p \in Paths |-> "absent"]
    /\ objects0 = objects
    /\ run = "first"
    /\ force \in BOOLEAN
    /\ valid \in SUBSET Recs
    /\ existing_ids = {}
    /\ recognitions = <<>>
    /\ rc = <<>>

RerunNext ==
    \/ GetExistingIds
    \/ ProcessDataset
    \/ NewContext
    \/ Enter
    \/ StageImages
    \/ StageDatabase
    \/ Exit
    \/ DbCommit
    \/ CommitTempFiles
    \/ RunTransforms
    \/ DbCommit2
    \/ RollbackDb
    \/ RollbackTemp
    \/ RollbackPerm
    \/ RollbackReturn
    \/ PutConn
    \/ Return
    \/ Rerun

RerunSpec == RerunInit /\ [][RerunNext]_vars

\* any sequence of calls on one AdaptiveRateLimiter
LimiterInit ==
    /\ InitCommon
    /\ InitOther
    /\ InitRun
    /\ pc = "limiter"
    /\ objects = [p \in Paths |-> "absent"]
    /\ objects0 = objects
    /\ \E initial \in InitialDelays : rate_limiter = NewLimiter(initial)
    /\ lim_calls = 0
    /\ last = NoCall
    /\ InitUp
    /\ InitPar

LimiterNext ==
    \/ CallRecordSuccess
    \/ CallRecordError
    \/ CallReset

LimiterSpec == LimiterInit /\ [][LimiterNext]_vars

\* _sequential_upload of MaxFiles pairs; the store answers freely
UploadInit ==
    /\ InitCommon
    /\ InitOther
    /\ InitRun
    /\ pc = "u_loop"
    /\ \E prior \in {"fresh", "loaded", "leftover"} :
         objects = BucketOf([r \in Recs |-> prior])
    /\ objects0 = objects
    /\ \E initial \in InitialDelays :
         /\ rate_limiter = NewLimiter(initial)
         /\ req_before = Before(NewLimiter(initial))
    /\ lim_calls = 0
    /\ last = NoCall
    /\ rate_strategy \in {"adaptive", "fixed", "none"}
    /\ nfiles = MaxFiles
    /\ backend_x = -1
    /\ file_no = 0
    /\ attempt = 0
    /\ successful_count = 0
    /\ failed_count = 0
    /\ result = NoResult
    /\ trace = <<>>
    /\ call_log = <<>>
    /\ InitPar

UploadNext ==
    \/ UploadCall
    \/ UploadRequest

UploadSpec == UploadInit /\ [][UploadNext]_vars

\* _sequential_upload of PacedFiles pairs with the adaptive strategy; the
\* store answers a request with a rate-limit error while the delay is below
\* backend_x and stores the object otherwise
PacedInit ==
    /\ InitCommon
    /\ InitOther
    /\ InitRun
    /\ pc = "u_loop"
    /\ objects = [p \in Paths |-> "absent"]
    /\ objects0 = objects
    /\ \E initial \in InitialDelays :
         /\ rate_limiter = NewLimiter(initial)
         /\ req_before = Before(NewLimiter(initial))
    /\ lim_calls = 0
    /\ last = NoCall
    /\ rate_strategy = "adaptive"
    /\ nfiles = PacedFiles
    /\ backend_x \in PacedX
    /\ file_no = 0
    /\ attempt = 0
    /\ successful_count = 0
    /\ failed_count = 0
    /\ result = NoResult
    /\ trace = <<>>
    /\ call_log = <<>>
    /\ InitPar

PacedSpec == PacedInit /\ [][UploadNext]_vars

\* _parallel_upload of ParFiles pairs by thread_count threads, adaptive
\* strategy, every path already in the bucket; the store answers freely
ParInit ==
    /\ InitCommon
    /\ InitOther
    /\ InitRun
    /\ pc = "parallel"
    /\ objects = BucketOf([r \in Recs |-> "loaded"])
    /\ objects0 = objects
    /\ \E initial \in {0, Second \div 10} :
         /\ rate_limiter = NewLimiter(initial)
         /\ seq_limiter = NewLimiter(initial)
    /\ lim_calls = 0
    /\ last = NoCall
    /\ rate_strategy = "adaptive"
    /\ nfiles = ParFiles
    /\ backend_x = -1
    /\ file_no = 0
    /\ attempt = 0
    /\ successful_count = 0
    /\ failed_count = 0
    /\ result = NoResult
    /\ trace = <<>>
    /\ call_log = <<>>
    /\ req_before = Before(NewLimiter(0))
    /\ wpc = [w \in Workers |-> "idle"]
    /\ wfile = [w \in Workers |-> 0]
    /\ wattempt = [w \in Workers |-> 0]
    /\ wanswer = [w \in Workers |-> <<>>]
    /\ wlocal = [w \in Workers |-> NewLimiter(0)]
    /\ lock = 0
    /\ recorded = 0

ParNext ==
    \E w \in Workers :
        \/ TakeTask(w)
        \/ Wake(w)
        \/ Request(w)
        \/ Acquire(w)
        \/ WriteRelease(w)

ParSpec == ParInit /\ [][ParNext]_vars

\* batch_upload of ParFiles pairs, adaptive strategy, every path already in
\* the bucket, max_workers 1 or thread_count
BatchInit ==
    /\ InitCommon
    /\ InitOther
    /\ InitRun
    /\ pc = "batch_upload"
    /\ objects = BucketOf([r \in Recs |-> "loaded"])
    /\ objects0 = objects
    /\ \E initial \in {0, Second \div 10} :
         /\ rate_limiter = NewLimiter(initial)
         /\ seq_limiter = NewLimiter(initial)
         /\ req_before = Before(NewLimiter(initial))
    /\ lim_calls = 0
    /\ last = NoCall
    /\ rate_strategy = "adaptive"
    /\ nfiles = ParFiles
    /\ backend_x = -1
    /\ file_no = 0
    /\ attempt = 0
    /\ successful_count = 0
    /\ failed_count = 0
    /\ result = NoResult
    /\ trace = <<>>
    /\ call_log = <<>>
    /\ wpc = [w \in Workers |-> "idle"]
    /\ wfile = [w \in Workers |-> 0]
    /\ wattempt = [w \in Workers |-> 0]
    /\ wanswer = [w \in Workers |-> <<>>]
    /\ wlocal = [w \in Workers |-> NewLimiter(0)]
    /\ lock = 0
    /\ recorded = 0

BatchNext ==
    \/ BatchUpload
    \/ UploadCall
    \/ UploadRequest
    \/ \E w \in Workers :
        \/ TakeTask(w)
        \/ Wake(w)
        \/ Request(w)
        \/ Acquire(w)
        \/ WriteRelease(w)

BatchSpec == BatchInit /\ [][BatchNext]_vars

\* delete_batch(paths) for every list of at most MaxPaths paths, with
\* repetitions, of a bucket that holds every permanent object
DeleteInit ==
    /\ InitCommon
    /\ InitRun
    /\ InitSm
    /\ pc = "delete_batch"
    /\ objects = BucketOf([r \in Recs |-> "loaded"])
    /\ objects0 = objects
    /\ \E n \in 0..MaxPaths : del_paths \in [1..n -> PermPaths]
    /\ del_successful = 0
    /\ del_failed = 0
    /\ del_i = 0
    /\ del_result = <<>>
    /\ del_log = <<>>
    /\ InitProc
    /\ InitDbOp
    /\ InitQwen
    /\ InitLate

DeleteNext ==
    \/ DeleteBulk
    \/ DeleteFile
    \/ DeleteReturn

DeleteSpec == DeleteInit /\ [][DeleteNext]_vars

\* scan_recognitions on every dataset root with at most MaxExports export
\* directories, with and without a limit
ScanInit ==
    /\ InitCommon
    /\ InitRun
    /\ InitSm
    /\ InitDel
    /\ pc = "scan"
    /\ objects = [p \in Paths |-> "absent"]
    /\ objects0 = objects
    /\ exports \in SUBSET (1..MaxExports)
    /\ export_recs \in [1..MaxExports -> SUBSET Recs]
    /\ \A e \in 1..MaxExports : e \notin exports => export_recs[e] = {}
    /\ direct_recs \in SUBSET Recs
    /\ dir_kind = [r \in Recs |-> "complete"]
    /\ scan_limit \in {0, 1}
    /\ scan_export = 0
    /\ recognition_dirs = <<>>
    /\ futures = {}
    /\ proc_results = <<>>
    /\ proc_returned = FALSE
    /\ processed = <<>>
    /\ metrics = [recognitions_processed |-> 0, recognitions_failed |-> 0]
    /\ InitDbOp
    /\ InitQwen
    /\ InitLate

ScanNext == ScanRecognitions

ScanSpec == ScanInit /\ [][ScanNext]_vars

\* process_dataset on one export directory with a record directory of any
\* kind for every id, any set of existing ids, with and without force
ProcInit ==
    /\ InitCommon
    /\ InitSm
    /\ InitDel
    /\ pc = "scan"
    /\ objects = [p \in Paths |-> "absent"]
    /\ objects0 = objects
    /\ run = None
    /\ force \in BOOLEAN
    /\ valid = Recs
    /\ existing_ids \in SUBSET Recs
    /\ recognitions = <<>>
    /\ rc = <<>>
    /\ exports = {1}
    /\ export_recs = [e \in 1..MaxExports |-> IF e = 1 THEN Recs ELSE {}]
    /\ direct_recs = {}
    /\ dir_kind \in [Recs -> Kinds]
    /\ scan_limit \in {0, 1}
    /\ scan_export = 0
    /\ recognition_dirs = <<>>
    /\ futures = {}
    /\ proc_results = <<>>
    /\ proc_returned = FALSE
    /\ processed = <<>>
    /\ metrics = [recognitions_processed |-> 0, recognitions_failed |-> 0]
    /\ InitDbOp
    /\ InitQwen
    /\ InitLate

ProcNext ==
    \/ ScanRecognitions
    \/ SubmitAll
    \/ \E i \in 1..NumRecs : Complete(i)
    \/ ReturnResults

ProcSpec == ProcInit /\ [][ProcNext]_vars

\* DatabaseManager calls in a row, on a database with or without the
\* recognitions table, while the caller's connection has rows pending or not
DbInit ==
    /\ InitCommon
    /\ InitRun
    /\ InitSm
    /\ InitDel
    /\ InitProc
    /\ pc = "db_ops"
    /\ objects = [p \in Paths |-> "absent"]
    /\ objects0 = objects
    /\ table_exists \in BOOLEAN
    /\ op_calls = 0
    /\ op_last = NoOp
    /\ InitQwen
    /\ InitLate

DbNext ==
    \/ DbOp
    \/ GetExistingRecognitionIds

DbSpec == DbInit /\ [][DbNext]_vars

\* one load_command run over NumRecs records of an empty bucket and database,
\* during which a KeyboardInterrupt may arrive
InterruptInit ==
    /\ InitCommon
    /\ InitOther
    /\ InitSm
    /\ pc = "idle"
    /\ objects = [p \in Paths |-> "absent"]
    /\ objects0 = objects
    /\ run = "first"
    /\ force = FALSE
    /\ valid = Recs
    /\ existing_ids = {}
    /\ recognitions = [i \in 1..NumRecs |-> i]
    /\ rc = <<>>

InterruptNext ==
    \/ NewContext
    \/ Enter
    \/ StageImages
    \/ StageDatabase
    \/ Exit
    \/ DbCommit
    \/ CommitTempFiles
    \/ RunTransforms
    \/ DbCommit2
    \/ RollbackDb
    \/ RollbackTemp
    \/ RollbackPerm
    \/ RollbackReturn
    \/ PutConn
    \/ Interrupt
    \/ Return

InterruptSpec == InterruptInit /\ [][InterruptNext]_vars

\* _parallel_upload as in ParSpec, during which a KeyboardInterrupt may reach
\* the main thread
CancelInit ==
    /\ ParInit
    /\ rate_limiter = NewLimiter(0)

CancelNext ==
    \/ InterruptPool
    \/ \E w \in Workers :
        \/ TakeTask(w)
        \/ Wake(w)
        \/ Request(w)
        \/ Acquire(w)
        \/ WriteRelease(w)

CancelSpec == CancelInit /\ [][CancelNext]_vars

\* one move_file(temp path, permanent path) of a staged file; the
\* destination is free or holds the file of an earlier load
MoveInit ==
    /\ InitCommon
    /\ InitRun
    /\ InitSm
    /\ InitDel
    /\ InitProc
    /\ InitDbOp
    /\ InitQwen
    /\ InitLate
    /\ pc = "mv_move"
    /\ \E before \in {"absent", "old"} :
         objects = [p \in Paths |-> IF p = mv_source THEN "new"
                                    ELSE IF p = mv_dest THEN before ELSE "absent"]
    /\ objects0 = objects

MoveNext ==
    \/ NativeMove
    \/ MoveDownload
    \/ MoveUpload
    \/ MoveRemove

MoveSpec == MoveInit /\ [][MoveNext]_vars

\* the batches of Spec, with a body that may call tx.commit() before the
\* with-block ends
ManualCommitNext ==
    \/ NewContext
    \/ Enter
    \/ StageImages
    \/ StageDatabase
    \/ BodyCommit
    \/ Exit
    \/ DbCommit
    \/ CommitTempFiles
    \/ RunTransforms
    \/ DbCommit2
    \/ RollbackDb
    \/ RollbackTemp
    \/ RollbackPerm
    \/ RollbackReturn
    \/ PutConn

ManualCommitSpec == Init /\ [][ManualCommitNext]_vars

\* _sequential_upload of MaxFiles pairs into an empty bucket without pacing,
\* under an IngestConfig whose retry settings are the defaults or were
\* changed by the caller
RetryInit ==
    /\ InitCommon
    /\ InitRun
    /\ InitDel
    /\ InitProc
    /\ InitDbOp
    /\ InitQwen
    /\ InitPar
    /\ commit_from = None
    /\ retry_max_attempts \in {2, 5}
    /\ retry_backoff_factor \in {2, 3}
    /\ mv_attempt = 0
    /\ mv_log = <<>>
    /\ mv_result = None
    /\ mv_data = None
    /\ pc = "u_loop"
    /\ objects = BucketOf([r \in Recs |-> "fresh"])
    /\ objects0 = objects
    /\ rate_limiter = NewLimiter(0)
    /\ req_before = Before(NewLimiter(0))
    /\ lim_calls = 0
    /\ last = NoCall
    /\ rate_strategy = "none"
    /\ nfiles = MaxFiles
    /\ backend_x = -1
    /\ file_no = 0
    /\ attempt = 0
    /\ successful_count = 0
    /\ failed_count = 0
    /\ result = NoResult
    /\ trace = <<>>
    /\ call_log = <<>>

RetrySpec == RetryInit /\ [][UploadNext]_vars

\* ----------------------------------------------------------------- claims
TxExited == pc = "exited" /\ ctx = "tx"
BodyErrors == {"upload", "bulk_load"}
CommitErrors == {"db_commit", "promote", "transform_recognitions",
                 "transform_recipes", "db_commit2"}
RollbackCalls == {"db_rollback", "delete_temp", "delete_perm", "putconn"}
InSteps(x) == Count(steps, x) > 0

\* C1: when batch_upload reports failed > 0, the bulk load of the batch is
\* never executed, stage raises the upload error, __exit__ runs rollback and
\* never commits, and the committed rows are those from before the batch.
C1_FailedUploadLoadsNothing ==
    (ctx = "tx" /\ upload_failed > 0) =>
        /\ ~InSteps("bulk_load")
        /\ Count(steps, "commit") = 0
        /\ ~InSteps("db_commit")
        /\ exc = "upload"
        /\ committed = committed0
        /\ pc = "exited" => (Count(steps, "rollback") = 1 /\ pending = NoRows)

C1_Witness ==
    /\ TxExited
    /\ upload_failed = 1
    /\ Count(steps, "rollback") = 1
    /\ \E p \in Uploads(Batch(batchNo)) : objects[p] = "new"

\* C2: when an upload of the batch failed and every delete request succeeded,
\* no blob written by the batch is left after the context has exited, in temp
\* mode and in direct mode.
C2_FailedUploadLeavesNoBlob ==
    (TxExited /\ upload_failed > 0 /\ ~delFailed) =>
        \A p \in Uploads(Batch(batchNo)) : objects[Target(p, use_temp)] # "new"

\* C3: after the context has exited with an error raised inside commit() (and
\* every delete request succeeded), each record of the batch either has its
\* row committed and both images at their permanent paths, or has no
\* committed row and no blob written by the batch.
FullyLoaded(r) ==
    /\ r \in committed["raw.recognition_files"]
    /\ \A s \in Slots : objects[PermPath(r, s)] # "absent"
NotLoaded(r) ==
    /\ r \notin committed["raw.recognition_files"]
    /\ \A s \in Slots : /\ objects[PermPath(r, s)] # "new"
                        /\ objects[TempPath(PermPath(r, s))] # "new"
C3_AllOrNothingAfterFailure ==
    (TxExited /\ exc \in CommitErrors /\ ~delFailed) =>
        \A r \in Batch(batchNo) : FullyLoaded(r) \/ NotLoaded(r)

\* C4: when the context is left, commit() has run if the body raised nothing;
\* if the body raised, rollback() has run, nothing was committed, the
\* connection went back last, and the error of the body is the one that
\* propagates.
C4_ExitCommitsOrRollsBack ==
    TxExited =>
        /\ origExc \notin BodyErrors =>
              (Count(steps, "commit") = 1 /\ Count(steps, "db_commit") = 1)
        /\ origExc \in BodyErrors =>
              /\ Count(steps, "rollback") = 1
              /\ Count(steps, "commit") = 0
              /\ ~InSteps("db_commit")
              /\ committed = committed0
              /\ exc = origExc
              /\ steps[Len(steps)] = "putconn"

C4_Witness ==
    /\ TxExited
    /\ origExc = "bulk_load"
    /\ exc = "bulk_load"
    /\ InSteps("delete_temp")

\* C5: a context holds a connection exactly while one is checked out of its
\* pool, and when __exit__ has finished (TransactionContext and
\* QwenTransactionContext, every outcome) the connection has been returned
\* exactly once and the context holds none.
C5_ConnectionReturnedOnce ==
    /\ \A m \in Managers : checkedOut[m] = IF db_conn /\ Pool = m THEN 1 ELSE 0
    /\ pc = "exited" =>
          /\ ~db_conn
          /\ Count(steps, "enter") = 1
          /\ Count(steps, "putconn") = 1

C5_Witness ==
    /\ pc = "exited"
    /\ ctx = "qwen"
    /\ exc = "db_rollback"
    /\ checkedOut["qwen"] = 0

\* C6: between get_connection uses no connection is checked out; in the last
\* use commit was called exactly when the body returned without error,
\* rollback was called when the body raised, and rows became visible only
\* when nothing raised.
C6_PoolHygiene ==
    /\ checkedOut["load"] = IF db_conn THEN 1 ELSE 0
    /\ (pc = "gc_idle" /\ uses > 0) =>
          /\ checkedOut["load"] = 0
          /\ Count(steps, "db_commit") = (IF InSteps("body") /\ origExc # "body" THEN 1 ELSE 0)
          /\ origExc = "body" => (Count(steps, "db_rollback") = 1 /\ committed = committed0)
          /\ committed # committed0 => exc = None

C6_Witness ==
    /\ pc = "gc_idle"
    /\ uses = MaxUses
    /\ origExc = "db_commit"
    /\ exc = "db_rollback"
    /\ committed["raw.recognition_files"] # {}

\* C7: the status is pending after construction, processing inside the
\* body, and after __exit__ it is complete exactly when commit succeeded and
\* rolled_back whenever rollback ran; it is never processing after the exit.
C7_StatusAfterExit ==
    ctx = "tx" =>
        /\ status \in {STATUS_PENDING, STATUS_PROCESSING, STATUS_COMPLETE, STATUS_ROLLED_BACK}
        /\ pc = "new" => status = STATUS_PENDING
        /\ pc \in {"body", "stage_db"} => status = STATUS_PROCESSING
        /\ pc = "exited" =>
              /\ (status = STATUS_COMPLETE) = (InSteps("db_commit2") /\ exc = None)
              /\ InSteps("rollback") => status = STATUS_ROLLED_BACK
              /\ status # STATUS_PROCESSING

\* C8: when a step of commit() failed and the error has left commit(),
\* rollback() was called once, right after the failed step, and the error
\* that propagates is the error of that step.
C8_CommitFailureRollsBack ==
    (ctx = "tx" /\ origExc \in CommitErrors /\ pc \in {"putconn", "exited"}) =>
        /\ Count(steps, "rollback") = 1
        /\ Count(steps, "db_rollback") = 1
        /\ steps[Index(steps, "rollback") - 1] = origExc
        /\ exc = origExc

C8_Witness ==
    /\ TxExited
    /\ origExc = "promote"
    /\ InSteps("delete_perm")

\* C9: the calls of one lifecycle are made in the order upload, bulk load,
\* commit, database commit, promotion, transforms, second database commit;
\* each needs the call before it, the transforms start only when every temp
\* file is promoted, and after a failed call only rollback calls follow.
Rank(x) ==
    CASE x = "upload" -> 1
      [] x = "bulk_load" -> 2
      [] x = "commit" -> 3
      [] x = "db_commit" -> 4
      [] x = "promote" -> 5
      [] x = "transform_recognitions" -> 6
      [] x = "transform_recipes" -> 7
      [] x = "db_commit2" -> 8
      [] OTHER -> 0
Needs(x) ==
    CASE x = "bulk_load" -> "upload"
      [] x = "commit" -> "bulk_load"
      [] x = "db_commit" -> "commit"
      [] x = "promote" -> "db_commit"
      [] x = "transform_recognitions" -> "db_commit"
      [] x = "transform_recipes" -> "transform_recognitions"
      [] x = "db_commit2" -> "transform_recipes"
      [] OTHER -> "enter"
C9_FixedOrder ==
    ctx = "tx" =>
        /\ \A i, j \in 1..Len(steps) :
              (i < j /\ Rank(steps[i]) > 0 /\ Rank(steps[j]) > 0) =>
                  \/ Rank(steps[i]) < Rank(steps[j])
                  \/ (steps[i] = "promote" /\ steps[j] = "promote")
        /\ \A j \in 1..Len(steps) :
              Rank(steps[j]) > 0 => \E i \in 1..(j - 1) : steps[i] = Needs(steps[j])
        /\ (pc = "c_transform" \/ InSteps("transform_recognitions")) => temp_files = {}
        /\ origExc # None =>
              /\ \A i \in 1..Len(steps) : Rank(steps[i]) <= Rank(origExc)
              /\ Count(steps, origExc) >= 1
        /\ \A i, j \in 1..Len(steps) :
              (i < j /\ steps[i] = "rollback") => steps[j] \in RollbackCalls

C9_Witness ==
    /\ TxExited
    /\ use_temp
    /\ Count(steps, "promote") = 2
    /\ InSteps("db_commit2")
    /\ status = STATUS_COMPLETE

\* C10: a rollback of a batch staged under the temp prefix changes no object
\* at a permanent path.
C10_TempRollbackKeepsPermanent ==
    [][(ctx = "tx" /\ use_temp /\ pc \in {"rb_db", "rb_temp", "rb_perm", "rb_ret"}) =>
          \A p \in PermPaths : objects'[p] = objects[p]]_vars

\* C11: after a successful commit of a batch staged in temp mode, every object
\* upload_file reported as uploaded for the batch ('already exists' answers
\* included) is at its permanent path, none is left under the temp prefix,
\* and the temp tracking list is empty.
C11_CommitPromotesEveryUpload ==
    (TxExited /\ use_temp /\ status = STATUS_COMPLETE /\ upload_failed = 0) =>
        /\ temp_files = {}
        /\ \A p \in Uploads(Batch(batchNo)) :
              /\ objects[p] # "absent"
              /\ objects[TempPath(p)] = "absent"

\* C12: in the second run over the same dataset with force off, the first
\* run having returned 0, every record directory the workers can process is
\* filtered out by existing_ids, process_dataset returns nothing, and no blob
\* is uploaded and no row bulk-loaded.
C12_SecondRunLoadsNothing ==
    (run = "second" /\ ~force /\ rc[1] = 0 /\ pc \notin {"r_lookup", "r_process"}) =>
        /\ Kept(Recs, existing_ids, force) \cap valid = {}
        /\ recognitions = <<>>
        /\ ~InSteps("upload")
        /\ ~InSteps("bulk_load")

\* C13: after any sequence of record_success, record_error and reset calls
\* on a limiter built with initial_delay <= max_delay, the current delay is
\* between initial_delay and max_delay.
C13_DelayWithinBounds ==
    /\ rate_limiter.initial_delay <= rate_limiter.current_delay
    /\ rate_limiter.current_delay <= max_delay

\* the delay was raised above initial_delay and successes brought it back
\* to the floor initial_delay
C13_Witness ==
    /\ last.op = "record_success"
    /\ rate_limiter.initial_delay > 0
    /\ last.before.current_delay > rate_limiter.initial_delay
    /\ last.before.current_delay \div 2 < rate_limiter.initial_delay
    /\ rate_limiter.current_delay = rate_limiter.initial_delay

\* C14: record_error with a text containing '429', 'rate limit' or 'too many
\* requests' (in any letter case) sets the delay to
\* min(max_delay, max(0.5 s, 2 x delay)): it grows strictly whenever it was
\* below max_delay, also from zero, and the success counter is 0.
RateLimitTexts ==
    {<<"HTTP", "429">>, <<"Rate", "Limit", "exceeded">>, <<"Too", "Many", "Requests">>}
C14_RateLimitErrorRaisesDelay ==
    (last.op = "record_error" /\ last.error \in RateLimitTexts) =>
        LET before == last.before.current_delay
            twice == IF 2 * before < Second \div 2 THEN Second \div 2 ELSE 2 * before
        IN
        /\ rate_limiter.current_delay = IF twice > max_delay THEN max_delay ELSE twice
        /\ before < max_delay => rate_limiter.current_delay > before
        /\ rate_limiter.success_count = 0

C14_Witness ==
    /\ last.op = "record_error"
    /\ last.error = <<"Rate", "Limit", "exceeded">>
    /\ last.before.current_delay = 0
    /\ last.before.success_count > 0
    /\ rate_limiter.current_delay = Second \div 2

OtherTexts ==
    {<<"connection", "timeout">>, <<"rate", "exceeded", "limit">>,
     <<"Duplicate">>, <<"resource", "already", "exists">>}
C16_OtherErrorKeepsDelay ==
    (last.op = "record_error" /\ last.error \in OtherTexts) =>
        /\ rate_limiter.error_count = last.before.error_count + 1
        /\ rate_limiter.current_delay = last.before.current_delay

C16_Witness ==
    /\ last.op = "record_error"
    /\ last.error = <<"rate", "exceeded", "limit">>
    /\ last.before.current_delay \in {Second \div 2, Second \div 10}
    /\ last.before.error_count > 0
    /\ rate_limiter.current_delay = last.before.current_delay

\* C19: one upload_file call makes at most 3 requests; a request with a good
\* answer is followed by the return at once; a further request comes only
\* after a failed one and after a sleep of 2^k s plus a jitter in [0, 0.5 s]
\* (k = 0, 1 counts the failed attempts before it); there is no sleep after
\* the third failure, and the call then raises the error of the third request.
RequestsUpTo(i) == {j \in 1..i : trace[j][1] = "request"}
C19_ThreeAttemptsWithBackoff ==
    LET n == Len(trace) IN
    /\ Cardinality(RequestsUpTo(n)) <= 3
    /\ \A i \in 1..n :
        /\ (trace[i][1] = "request" /\ RequestsUpTo(i - 1) # {}) =>
              /\ trace[i - 1][1] = "sleep"
              /\ trace[i - 2][1] = "request"
              /\ trace[i - 2][2] # <<>>
        /\ (trace[i][1] = "request" /\ trace[i][2] = <<>>) =>
              /\ i = n - 1
              /\ trace[n] = <<"return">>
              /\ result.returned
        /\ trace[i][1] = "sleep" =>
              LET k == Cardinality(RequestsUpTo(i)) - 1 IN
              /\ trace[i - 1][1] = "request"
              /\ k \in {0, 1}
              /\ trace[i][2] = (IF k = 0 THEN 1 ELSE 2) * Second
              /\ trace[i][3] >= 0
              /\ 2 * trace[i][3] <= Second
        /\ trace[i][1] = "raise" =>
              /\ i = n
              /\ Cardinality(RequestsUpTo(n)) = 3
              /\ trace[i - 1] = <<"request", trace[i][2]>>
              /\ result.raised = trace[i][2]
              /\ ~result.returned
    /\ (pc = "u_request" /\ n > 0 /\ trace[n][1] # "wait") => trace[n][1] = "sleep"

C19_Witness ==
    /\ Len(trace) >= 6
    /\ trace[Len(trace)] = <<"raise", <<"connection", "timeout">>>>
    /\ \E i \in 1..Len(trace) : trace[i] = <<"request", <<"HTTP", "429">>>>
    /\ \E i \in 1..Len(trace) : trace[i] = <<"sleep", 2 * Second, Second \div 2>>
    /\ failed_count = 1

\* C20: a request answered with a 'Duplicate' or 'already exists' error ends
\* the upload_file call at once with True: it is the last request of the call,
\* the limiter is as it was before the request, and the file is counted in
\* successful, not in failed.
DuplicateTexts == {<<"Duplicate">>, <<"resource", "already", "exists">>}
C20_DuplicateIsSuccess ==
    LET n == Len(trace) IN
    \A i \in 1..n :
        (trace[i][1] = "request" /\ trace[i][2] \in DuplicateTexts) =>
            /\ i = n - 1
            /\ trace[n] = <<"return">>
            /\ result = [returned |-> TRUE, raised |-> <<>>]
            /\ pc = "u_loop"
            /\ rate_limiter = req_before.limiter
            /\ successful_count = req_before.successful + 1
            /\ failed_count = req_before.failed

C20_Witness ==
    /\ Len(trace) >= 4
    /\ trace[Len(trace) - 1] = <<"request", <<"resource", "already", "exists">>>>
    /\ trace[Len(trace) - 2][1] = "sleep"
    /\ result.returned
    /\ rate_strategy = "adaptive"
    /\ rate_limiter.error_count > 0
    /\ successful_count > 0

\* number of rate-limit errors that raise the delay d to max_delay
RECURSIVE StepsToMax(_)
StepsToMax(d) == IF d >= max_delay THEN 0 ELSE 1 + StepsToMax(Increased(d))

C18_LimiterCallsSerialised ==
    /\ lock = 0 => /\ rate_limiter = seq_limiter
                   /\ rate_limiter.error_count = recorded
    /\ \A w \in Workers :
          wpc[w] \in {"sleeping", "backoff", "requesting", "idle"} => lock # w

\* a worker waits for the lock another worker holds, both recording errors
C18_Witness ==
    \E a, b \in Workers :
        /\ a # b
        /\ lock = a
        /\ wpc[a] = "locked"
        /\ wpc[b] = "locking"
        /\ wanswer[a] = <<"HTTP", "429">>
        /\ wanswer[b] = <<"connection", "timeout">>
        /\ recorded > 0

\* C21: batch_upload starts upload_file once for every pair, also after a
\* call that raised; the calls that have ended are counted once each,
\* failed being the number of calls that raised, so at the end
\* successful + failed is the number of pairs; in the sequential mode the
\* calls start in input order, each after the previous one has ended.
Starts == {i \in 1..Len(call_log) : call_log[i][1] = "start"}
Ends == {i \in 1..Len(call_log) : call_log[i][1] = "end"}
C21_BatchUploadCountsEveryPair ==
    pc \in {"u_loop", "u_request", "u_done", "parallel"} =>
        /\ \A f \in 1..file_no :
              Cardinality({i \in Starts : call_log[i][2] = f}) = 1
        /\ \A i \in Starts : call_log[i][2] \in 1..file_no
        /\ \A f \in 1..nfiles : Cardinality({i \in Ends : call_log[i][2] = f}) <= 1
        /\ \A i \in Ends : \E j \in Starts : j < i /\ call_log[j][2] = call_log[i][2]
        /\ failed_count = Cardinality({i \in Ends : call_log[i][3] = "raised"})
        /\ successful_count = Cardinality({i \in Ends : call_log[i][3] = "True"})
        \* every pair is started as long as a thread is free for it
        /\ (file_no < nfiles /\ Cardinality(Starts) = Cardinality(Ends)) =>
              pc \in {"u_loop", "parallel"}
        /\ pc # "parallel" =>
              \A i \in 1..Len(call_log) :
                  /\ call_log[i][1] = (IF i % 2 = 1 THEN "start" ELSE "end")
                  /\ call_log[i][2] = (i + 1) \div 2

\* the batch has ended, the first call raised and the second returned True
C21_Witness ==
    /\ pc = "u_loop"
    /\ file_no = nfiles
    /\ Len(call_log) >= 4
    /\ call_log[2] = <<"end", 1, "raised">>
    /\ call_log[4] = <<"end", 2, "True">>
    /\ successful_count + failed_count = nfiles

\* C22: delete_batch sends one bulk remove of all the paths; when it is
\* answered the result is (len(paths), 0); when it raises, every path is
\* removed individually, once, in order, and counted once as successful or
\* failed; the two counts always add up to len(paths), and the call ends
\* with a returned tuple, never an exception.
Singles == 2..Len(del_log)
C22_DeleteBatchCountsEveryPath ==
    /\ pc \in {"delete_batch", "d_loop", "d_return", "d_done"}
    /\ pc # "delete_batch" => del_log[1].paths = del_paths
    /\ pc = "d_done" =>
        /\ del_result[1] + del_result[2] = Len(del_paths)
        /\ del_log[1].ok => del_log = <<[paths |-> del_paths, ok |-> TRUE]>>
                             /\ del_result = <<Len(del_paths), 0>>
        /\ ~del_log[1].ok =>
              /\ Len(del_log) = Len(del_paths) + 1
              /\ \A i \in 1..Len(del_paths) : del_log[i + 1].paths = <<del_paths[i]>>
              /\ del_result[1] = Cardinality({i \in Singles : del_log[i].ok})
              /\ del_result[2] = Cardinality({i \in Singles : ~del_log[i].ok})

\* the bulk request raised, one individual delete failed and one succeeded
C22_Witness ==
    /\ pc = "d_done"
    /\ ~del_log[1].ok
    /\ del_result = <<1, 1>>

\* C23: with one or more export directories, scan_recognitions lists the
\* record directories of the one that is last in name order.
LastExport == CHOOSE e \in exports : \A o \in exports : o <= e
C23_ScansLastExport ==
    (pc = "scanned" /\ exports # {}) =>
        /\ scan_export = LastExport
        /\ recognition_dirs = Truncated(Sorted(export_recs[LastExport]), scan_limit)

\* C24: scan_recognitions never returns an empty list: without an export
\* directory and without a record directory it fails instead.
C24_ScanNeverReturnsEmpty ==
    pc = "scanned" => recognition_dirs # <<>>

\* C25: of the directories handed to the pool, those with two images yield
\* one RecognitionData each and those with another number of images are
\* counted as failed, when no directory has any other defect.
TwoImageKinds == {"complete", "no_recipe"}
WrongCountKinds == {"one_image", "three_images"}
DirsOfKind(K) == {i \in 1..Len(recognition_dirs) : dir_kind[recognition_dirs[i]] \in K}
C25_WrongImageCountIsRecorded ==
    (pc = "p_done" /\ DirsOfKind(Kinds \ (TwoImageKinds \cup WrongCountKinds)) = {}) =>
        /\ proc_returned
        /\ Len(proc_results) = Cardinality(DirsOfKind(TwoImageKinds))
        /\ metrics.recognitions_failed = Cardinality(DirsOfKind(WrongCountKinds))

\* C26: a directory with two valid images and no recipe file yields a
\* RecognitionData with recipe_payload None; a directory with two valid
\* images and no active-menu file yields no RecognitionData.
RecordsOf(d) == {i \in 1..Len(proc_results) : proc_results[i].recognition_id = d}
C26_MissingMenuSkipsTheRecord ==
    pc = "p_done" =>
        \A i \in 1..Len(recognition_dirs) :
            LET d == recognition_dirs[i] IN
            /\ dir_kind[d] = "no_recipe" =>
                  \E j \in RecordsOf(d) : proc_results[j].recipe_payload = None
            /\ dir_kind[d] = "no_menu" => RecordsOf(d) = {}

\* C27: process_dataset returns one RecognitionData for every scanned
\* directory that is not filtered out and is processed successfully, and
\* nothing else, in whatever order the tasks complete; a directory whose id
\* is in existing_ids is handed to process_recognition only with
\* force_reupload; every kept directory is processed once, also after the
\* failure of another.
Scanned == ScanRecognitionsOf(exports, scan_limit)
Filtered27 ==
    LET scanned == Scanned
    IN {d \in Recs : (\E i \in 1..Len(scanned) : scanned[i] = d)
                     /\ (force \/ existing_ids = {} \/ d \notin existing_ids)}
Succeeds(d) == dir_kind[d] \in {"complete", "no_recipe", "no_menu"}
C27_OneRecordPerProcessedDirectory ==
    /\ \A i, j \in 1..Len(processed) : processed[i] = processed[j] => i = j
    /\ {processed[i] : i \in 1..Len(processed)} \subseteq Filtered27
    /\ \A i \in 1..Len(processed) : ~force => processed[i] \notin existing_ids
    /\ \A d \in Recs :
          Cardinality(RecordsOf(d)) =
              IF Succeeds(d) /\ \E i \in 1..Len(processed) : processed[i] = d THEN 1 ELSE 0
    /\ pc = "p_done" =>
          /\ proc_returned
          /\ {processed[i] : i \in 1..Len(processed)} = Filtered27

\* two directories were processed in the reverse of the input order, the
\* first to complete failed on its active menu, the other yielded a record
C27_Witness ==
    /\ pc = "p_done"
    /\ processed = <<2, 1>>
    /\ dir_kind[2] = "bad_menu"
    /\ Len(proc_results) = 1
    /\ proc_results[1].recognition_id = 1

\* C28: get_existing_recognition_ids does not raise; it returns the empty
\* set when the recognitions table is missing and exactly the ids of the
\* table when it exists, so never 'no identifiers' for a table with rows.
C28_ExistingIdsAreTheTableIds ==
    op_last.name = "get_existing_recognition_ids" =>
        /\ ~op_last.raised
        /\ op_last.value = IF table_exists THEN committed["recognitions"] ELSE {}

\* C29: bulk_copy, execute_query and call_function on a connection of the
\* caller send their statement and nothing else: no commit, no rollback, no
\* putconn, whether the statement returns or raises, and the caller's pending
\* rows stay pending. Without a connection, a call that sends a statement
\* takes one connection from the pool, commits it when the statement
\* returned, rolls it back when the statement or the commit raised, and puts
\* it back in either case; rows become visible only when nothing raised.
C29_ConnectionOwnership ==
    op_last.name \in DbOps =>
        /\ checkedOut["load"] = 0
        /\ \A t \in Tables : op_last.pending0[t] \subseteq pending[t]
        /\ op_last.with_conn =>
              /\ op_last.events = IF Executes(op_last.name, op_last.rows)
                                  THEN <<"execute">> ELSE <<>>
              /\ committed = committed0
        /\ (~op_last.with_conn /\ Executes(op_last.name, op_last.rows)) =>
              /\ op_last.events[1] = "getconn"
              /\ Count(op_last.events, "getconn") = 1
              /\ Len(op_last.events) > 1 =>
                    /\ op_last.events[Len(op_last.events)] = "putconn"
                    /\ Count(op_last.events, "putconn") = 1
              /\ ~op_last.raised =>
                    /\ op_last.events = <<"getconn", "execute", "commit", "putconn">>
                    /\ committed = [committed0 EXCEPT ![TableOf(op_last.name)] =
                                                        @ \cup op_last.rows]
              /\ op_last.raised =>
                    /\ committed = committed0
                    /\ Len(op_last.events) > 1 => Count(op_last.events, "rollback") = 1
              /\ pending = op_last.pending0

\* a statement on the caller's connection raised while rows of an earlier
\* call were pending on it
C29_Witness ==
    /\ op_last.name = "execute_query"
    /\ op_last.with_conn
    /\ op_last.raised
    /\ op_last.pending0["raw.recognition_files"] # {}
    /\ pending = op_last.pending0

\* C30: the rows load_qwen_annotations hands to bulk_copy are the rows of
\* its input whose recognition_id is an existing id, all of them, in input
\* order, and no other row; after the context has exited, the rows and the
\* transform result are visible when nothing raised, commit was called once
\* when the body ended without error, and when the body raised rollback was
\* called once and nothing of it is visible.
Embeddings(short, long) ==
    {f \in [1..Len(short) -> 1..Len(long)] :
        /\ \A i, j \in 1..Len(short) : i < j => f[i] < f[j]
        /\ \A i \in 1..Len(short) : short[i] = long[f[i]]}
QwenBodyErrors == {"bulk_load", "transform_items"}
C30_QwenLoadsExistingRowsInOrder ==
    (ctx = "qwen" /\ pc \notin {"q_new", "q_body"}) =>
        /\ IdsOf(qwen_copied) \subseteq committed0["recognitions"]
        /\ Len(qwen_copied) =
              Cardinality({i \in 1..Len(qwen_annotations) :
                              qwen_annotations[i] \in committed0["recognitions"]})
        /\ Embeddings(qwen_copied, qwen_annotations) # {}
        /\ Count(steps, "bulk_load") = (IF qwen_copied = <<>> THEN 0 ELSE 1)
        /\ pc # "q_exit" =>
              /\ origExc = None =>
                    /\ committed["raw.qwen_annotations"] =
                          committed0["raw.qwen_annotations"] \cup IdsOf(qwen_copied)
                    /\ IdsOf(qwen_copied) \subseteq committed["initial_tray_items"]
              /\ origExc \notin QwenBodyErrors => Count(steps, "db_commit") = 1
              /\ origExc \in QwenBodyErrors =>
                    /\ Count(steps, "db_rollback") = 1
                    /\ Count(steps, "db_commit") = 0
                    /\ committed = committed0

\* two rows were given, the first names an id that does not exist, the second
\* was loaded and is visible after the exit
C30_Witness ==
    /\ ctx = "qwen"
    /\ pc # "q_exit"
    /\ Len(qwen_annotations) = 2
    /\ qwen_annotations[1] \notin committed0["recognitions"]
    /\ qwen_copied = <<qwen_annotations[2]>>
    /\ origExc = None
    /\ qwen_annotations[2] \in committed["raw.qwen_annotations"]

\* C31: when a KeyboardInterrupt has arrived while a batch was staged or
\* committed, the context has run rollback and has not completed, the
\* connection is back in the pool, and load_command returns 130.
C31_InterruptRollsBack ==
    (ctx = "tx" /\ exc = "KeyboardInterrupt" /\ pc \in {"exited", "r_done"}) =>
        /\ InSteps("rollback")
        /\ status # STATUS_COMPLETE
        /\ checkedOut["load"] = 0
        /\ pc = "r_done" => rc = <<130>>

\* C32: after the interrupt of a run no upload task that had not started is
\* started: no upload_file call begins after the interrupt.
C32_NothingStartsAfterInterrupt ==
    \A i \in 1..Len(call_log) : \A j \in 1..Len(call_log) :
        (call_log[i][1] = "interrupt" /\ i < j) => call_log[j][1] # "start"

\* C33: once commit() has returned, and once rollback() has returned, the
\* staging bookkeeping is empty: no staged record and no temp path is kept.
C33_BookkeepingEmptyAfterwards ==
    (TxExited /\ (status = STATUS_COMPLETE \/ InSteps("rollback"))) =>
        /\ staged_recognitions = {}
        /\ temp_files = {}

\* C34: move_file asks for the native move first in every attempt and starts
\* the fallback only after that move raised; the source is removed only
\* right after the upload to the destination returned in the same attempt;
\* and at every moment the file is at the source or the destination holds
\* its content.
C34_MoveNeverLosesTheFile ==
    /\ objects[mv_source] = "new" \/ objects[mv_dest] = "new"
    /\ \A i \in 1..Len(mv_log) :
         /\ (i = 1 \/ mv_log[i].attempt # mv_log[i - 1].attempt) = (mv_log[i].op = "move")
         /\ mv_log[i].op = "download" =>
                mv_log[i - 1].op = "move" /\ mv_log[i - 1].ans # "ok"
         /\ mv_log[i].op = "upload" =>
                mv_log[i - 1].op = "download" /\ mv_log[i - 1].ans = "ok"
         /\ mv_log[i].op = "remove" =>
                /\ mv_log[i - 1] = [op |-> "upload", ans |-> "ok", attempt |-> mv_log[i].attempt]
                /\ objects[mv_dest] = "new"

\* the fallback moved the file in a later attempt of the decorator
C34_Witness ==
    /\ mv_result = "True"
    /\ mv_attempt > 0
    /\ mv_log[Len(mv_log)] = [op |-> "remove", ans |-> "ok", attempt |-> mv_attempt]
    /\ objects[mv_source] = "absent"
    /\ objects[mv_dest] = "new"

\* C35: after the rollback of a batch staged in direct mode, every object
\* that was under recognitions/<id>/ before the batch started is still there.
C35_DirectRollbackKeepsOlderObjects ==
    (TxExited /\ ~use_temp /\ InSteps("rollback")) =>
        \A p \in PermPaths : objects0[p] # "absent" => objects[p] # "absent"

\* C36: the batches are handled one after another; a step of batch k changes
\* no row and no blob of the records of another batch; once batch k has
\* failed no further batch is begun, the records of batches 1..k-1 are
\* committed, and the command returns 1.
OtherBatches == UNION {Batch(j) : j \in (1..TotalBatches) \ {batchNo}}
EarlierBatches == UNION {Batch(j) : j \in 1..(batchNo - 1)}
FailedBatch ==
    (ctx = "tx" /\ exc # None) =>
        /\ \A r \in EarlierBatches : r \in committed["raw.recognition_files"]
        /\ pc = "r_done" => rc[Len(rc)] = 1
C36_FailedBatchStopsTheRun ==
    [][/\ \A r \in OtherBatches :
            /\ \A t \in Tables : (r \in committed'[t]) = (r \in committed[t])
            /\ \A s \in Slots : /\ objects'[PermPath(r, s)] = objects[PermPath(r, s)]
                                /\ objects'[TempPath(PermPath(r, s))] =
                                       objects[TempPath(PermPath(r, s))]
       /\ (ctx = "tx" /\ exc # None) => batchNo' = batchNo
       /\ FailedBatch']_vars

\* the second batch failed after the first was loaded, and 1 was returned
C36_Witness ==
    /\ pc = "r_done"
    /\ exc # None
    /\ batchNo = 2
    /\ rc = <<1>>
    /\ FullyLoaded(recognitions[1])
    /\ NotLoaded(recognitions[2])

\* C37: in one TransactionContext lifecycle the database transaction of the
\* batch is committed at most once and each transform is run at most once,
\* also when the body has called commit() itself (stated for lifecycles in
\* which no call has failed, so that every commit counted went through).
C37_CommitsAtMostOnce ==
    (ctx = "tx" /\ exc = None) =>
        /\ Count(steps, "db_commit") <= 1
        /\ Count(steps, "transform_recognitions") <= 1
        /\ Count(steps, "transform_recipes") <= 1

\* C38: one upload_file call sends at most config.retry_max_attempts upload
\* requests, and its k-th backoff sleep is retry_backoff_factor^(k-1)
\* seconds plus the jitter.
Sleeps == SelectSeq(trace, LAMBDA e : e[1] = "sleep")
C38_ConfigSetsTheRetries ==
    /\ Len(SelectSeq(trace, LAMBDA e : e[1] = "request")) <= retry_max_attempts
    /\ \A k \in 1..Len(Sleeps) : Sleeps[k][2] = (retry_backoff_factor ^ (k - 1)) * Second

\* C39: a delete_file call returns False only after three remove requests
\* for its path have failed: after delete_batch, the failed individual
\* requests are at least three for every path counted as failed.
C39_DeleteFileRetriesThreeTimes ==
    (pc = "d_done" /\ ~del_log[1].ok) =>
        Cardinality({i \in Singles : ~del_log[i].ok}) >= 3 * del_result[2]

\* C40: with strategy 'none' upload_file calls no pacing wait and the limiter
\* keeps its initial state; with 'fixed' the wait is of the initial delay
\* and the limiter keeps its initial state whatever the uploads answer, so
\* only 'adaptive' changes it; a pacing strategy waits exactly once per
\* call, as the first thing of the call, and never between the attempts.
Waits == {i \in 1..Len(trace) : trace[i][1] = "wait"}
C40_StrategyDecidesLimiterUse ==
    /\ rate_strategy = "none" => Waits = {}
    /\ rate_strategy \in {"none", "fixed"} =>
          rate_limiter = NewLimiter(rate_limiter.initial_delay)
    /\ rate_strategy = "fixed" =>
          \A i \in Waits : trace[i][2] = rate_limiter.initial_delay
    /\ (rate_strategy # "none" /\ file_no > 0) => Waits = {1}

\* the second call under 'fixed' waited the initial delay, and a request of
\* it has failed with a rate-limit answer
C40_Witness ==
    /\ rate_strategy = "fixed"
    /\ file_no = 2
    /\ trace[1][1] = "wait"
    /\ trace[1][2] = Second \div 10
    /\ \E i \in 2..Len(trace) : trace[i][1] = "request" /\ IsRateLimit(trace[i][2])
    /\ failed_count = 1

====
